---- MODULE Spec2Model ----
(***************************************************************************)
(* Model of svagent/advanced_docker_scheduler.py: the DockerScheduler     *)
(* instance pool (registry, ready queue, pool manager, health checker,    *)
(* allocate / release API, shutdown).                                     *)
(*                                                                         *)
(* One action is one run of a coroutine between two suspension points of  *)
(* the scheduler's event loop.  A caller of allocate_instance that lives  *)
(* on another event loop (the branch `current_loop is not self.loop`)     *)
(* runs lines 433-450 on its own thread, so its re-check and its status   *)
(* write are separate steps that interleave with the scheduler's loop.    *)
(***************************************************************************)
EXTENDS Integers, Sequences, FiniteSets, TLC

(* ----------------------------- bounds --------------------------------- *)
\* largest target pool size (pool_size) tried
MaxTarget == 2
\* largest max_pool_size tried
MaxMax == 2
\* number of instance ids _create_instance may generate in one behaviour
MaxInst == 2
\* number of abandoned cross-loop ready_queue.get() coroutines kept pending
MaxOrphans == 1
\* the local `concurrent_creation_limit` of _pool_manager.  The source sets
\* it to 128; it is scaled down here so that it binds inside a pool of
\* MaxTarget instances
concurrent_creation_limit == 1

(* ------------------------ program constants --------------------------- *)
\* `timeout = 3` in allocate_instance (seconds)
timeout == 3

\* `max_retries = 10` in AdvancedDockerManager._request_instance_async
max_retries == 10

CREATING == "creating"
TESTING == "testing"
READY == "ready"
ALLOCATED == "allocated"
DESTROYING == "destroying"
FAILED == "failed"

InstanceStatus == {CREATING, TESTING, READY, ALLOCATED, DESTROYING, FAILED}

\* clients of the allocate / release API
Callers == {"c1", "c2"}
\* c1 is served on the scheduler's own loop (aiohttp handler), c2 calls
\* allocate_instance from another event loop
CallerLoop(c) == IF c = "c1" THEN "same" ELSE "cross"

InstanceIds == 1..MaxInst

VARIABLES
    pool_size,          \* self.pool_size
    max_pool_size,      \* self.max_pool_size
    running,            \* self.running
    started,            \* start() has run (self.loop, self.ready_queue set)
    instances,          \* self.instances: id -> DockerInstance
    ready_queue,        \* self.ready_queue: items of the asyncio.Queue
    stats,              \* self.stats counters
    background_tasks,   \* the background loops that are still alive
    pm_pc,              \* _pool_manager: "cycle" | "gather" | "done" (cancelled)
    create_tasks,       \* ids whose _create_instance coroutine has not returned
    destroy_calls,      \* _destroy_instance calls suspended in delete_env: <<id, by>>
    probes,             \* ids with a _check_instance_health task in flight
    pc,                 \* per caller: "idle", or its position in allocate_instance
                        \* ("waiting", "got", "checked") or release_instance
                        \* ("releasing", "rejected")
    held,               \* per caller: instance_id it dequeued / releases (0 = none)
    waited,             \* per caller: seconds spent waiting in ready_queue.get()
    orphans,            \* pending ready_queue.get() whose cross-loop caller timed out
    pending_puts,       \* ready_queue.put() submitted by run_coroutine_threadsafe
    sd_pc,              \* shutdown(): "no" | "cancelled" | "destroying" | "done"
    next_id,            \* next fresh instance id
    delete_loops,       \* per followed delete_env call: position in its loop
                        \* and num_time_not_found
    http,               \* the API call served last, through an HTTP handler
                        \* or as a method call, with its response
    loop_pc,            \* per background loop: position in its `while
                        \* self.running` ("head", "body", "backoff", "ended")
    provisioner_envs,   \* ids of the creations whose CreateAgentToolEnv call
                        \* the provisioner has answered: their environment exists
    client              \* the client-side AdvancedDockerManager: instance_id,
                        \* ip_port, position in request / release, requests sent

vars == <<pool_size, max_pool_size, running, started, instances, ready_queue,
          stats, background_tasks, pm_pc, create_tasks, destroy_calls, probes,
          pc, held, waited, orphans, pending_puts, sd_pc, next_id,
          delete_loops, http, loop_pc, provisioner_envs, client>>

\* the provisioner client's delete loop, the HTTP layer, the try / except
\* frame of the background loops, the provisioner's side of create_env and
\* the client-side manager: the scheduler's own steps take delete_env's
\* return, the API calls, the iterations of the loops and the provisioner's
\* answers as given
edge == <<delete_loops, http, loop_pc, provisioner_envs, client>>

\* the background loops started by start() (lines 121-125)
Loops == {"pool_manager", "health_checker", "stats_reporter"}

config == <<pool_size, max_pool_size>>

\* AdvancedDockerManager.__init__ (mobile_session.py lines 23-25, 51-54):
\* nothing held, no call made
\* instance_id 0 is None; call, at, attempt: the method running and its
\* position; sent, response, result: the requests the call has sent, the
\* last response it got, what it returned
NewManager ==
    [instance_id |-> 0, ip_port |-> "None", call |-> "none", at |-> "idle",
     attempt |-> 0, sent |-> 0, response |-> "none", result |-> "none"]
callerVars == <<pc, held, waited>>

(* ------------------------------ helpers ------------------------------- *)
Range(s) == {s[k] : k \in 1..Len(s)}

\* a record built with its environment already filled in
NewInstance_WithEnv ==
    [status |-> CREATING, env_id |-> "env", endpoint |-> "endpoint", client_id |-> "None",
     allocated_at |-> "None", last_health_check |-> "None", error_message |-> ""]

\* DockerInstance(...) as built in _create_instance
NewInstance ==
    [status |-> CREATING, env_id |-> "", endpoint |-> "", client_id |-> "None",
     allocated_at |-> "None", last_health_check |-> "None", error_message |-> ""]

CountStatus(insts, s) == Cardinality({i \in DOMAIN insts : insts[i].status = s})

RemoveKey(insts, i) == [j \in (DOMAIN insts) \ {i} |-> insts[j]]

Bump(st, k) == [st EXCEPT ![k] = @ + 1]


Min2(a, b) == IF a <= b THEN a ELSE b

Max2(a, b) == IF a >= b THEN a ELSE b

(* ------------------------- _pool_manager ------------------------------ *)
\* a pool manager that forgets `can_create` (line 274)
ActualNeeded_NoCapacity(ready_count, creating_count, testing_count, total_instances, ps, mx) ==
    LET needed == ps - (ready_count + creating_count + testing_count)
        creation_slots_available ==
            Max2(0, concurrent_creation_limit - (creating_count + testing_count))
    IN  Min2(needed, creation_slots_available)

\* a pool manager that forgets `creation_slots_available` (lines 277-279)
ActualNeeded_NoSlots(ready_count, creating_count, testing_count, total_instances, ps, mx) ==
    LET needed == ps - (ready_count + creating_count + testing_count)
        can_create == mx - total_instances
    IN  Min2(needed, can_create)

\* actual_needed of one cycle (lines 254-281); ready_count is ready_queue.qsize()
ActualNeeded(ready_count, creating_count, testing_count, total_instances, ps, mx) ==
    LET total_active == ready_count + creating_count + testing_count
        needed == ps - total_active
        can_create == mx - total_instances
        ongoing_creations == creating_count + testing_count
        creation_slots_available == Max2(0, concurrent_creation_limit - ongoing_creations)
    IN  Min2(needed, Min2(can_create, creation_slots_available))

\* what the current cycle would launch
CycleNeeded ==
    ActualNeeded(Len(ready_queue), CountStatus(instances, CREATING),
                 CountStatus(instances, TESTING), Cardinality(DOMAIN instances),
                 pool_size, max_pool_size)

(* ------------------------ _destroy_instance --------------------------- *)
\* a _destroy_instance that does nothing once a destruction was counted
DestroyBegin_Budget(insts, st, i) ==
    IF i \notin DOMAIN insts \/ st.total_destroyed >= 1
    THEN [instances |-> insts, stats |-> st, suspended |-> FALSE]
    ELSE IF insts[i].env_id # ""
    THEN [instances |-> [insts EXCEPT ![i].status = DESTROYING], stats |-> st,
          suspended |-> TRUE]
    ELSE [instances |-> RemoveKey(insts, i), stats |-> Bump(st, "total_destroyed"),
          suspended |-> FALSE]

\* _destroy_instance up to its first suspension: unknown id returns at once;
\* otherwise the status is set to DESTROYING and, with an env_id, the call
\* suspends in manager.delete_env; without one the finally block runs directly.
DestroyBegin(insts, st, i) ==
    IF i \notin DOMAIN insts
    THEN [instances |-> insts, stats |-> st, suspended |-> FALSE]
    ELSE IF insts[i].env_id # ""
    THEN [instances |-> [insts EXCEPT ![i].status = DESTROYING], stats |-> st,
          suspended |-> TRUE]
    ELSE [instances |-> RemoveKey(insts, i), stats |-> Bump(st, "total_destroyed"),
          suspended |-> FALSE]

\* a finally block that removes the record without counting it
DestroyFinish_NoCount(insts, st, i) ==
    IF i \in DOMAIN insts
    THEN [instances |-> RemoveKey(insts, i), stats |-> st]
    ELSE [instances |-> insts, stats |-> st]

\* a finally block that counts the destruction but keeps the record
DestroyFinish_KeepsRecord(insts, st, i) ==
    IF i \in DOMAIN insts
    THEN [instances |-> insts, stats |-> Bump(st, "total_destroyed")]
    ELSE [instances |-> insts, stats |-> st]

\* a finally block that counts a destruction on every call, record or not
DestroyFinish_CountsAlways(insts, st, i) ==
    [instances |-> IF i \in DOMAIN insts THEN RemoveKey(insts, i) ELSE insts,
     stats |-> Bump(st, "total_destroyed")]

\* the finally block of _destroy_instance (lines 239-243)
DestroyFinish(insts, st, i) ==
    IF i \in DOMAIN insts
    THEN [instances |-> RemoveKey(insts, i), stats |-> Bump(st, "total_destroyed")]
    ELSE [instances |-> insts, stats |-> st]

(* -------------------- _handle_unhealthy_instance ---------------------- *)
\* an ejection that puts every item back, the unhealthy id included
Eject_KeepsAll(q, i) == q

\* a drain of the ready queue that puts nothing back
Eject_Clears(q, i) == << >>

\* an ejection that drops the head of the queue when the unhealthy id is not
\* in it
Eject_DropsHead(q, i) ==
    IF q = <<>> THEN <<>>
    ELSE IF i \in Range(q) THEN SelectSeq(q, LAMBDA x : x # i)
    ELSE Tail(q)

\* drain ready_queue into temp_queue dropping the first occurrence of i, then
\* put everything back (lines 371-383)
RECURSIVE Eject(_, _)
Eject(q, i) ==
    IF q = <<>> THEN <<>>
    ELSE IF Head(q) = i THEN Tail(q)
    ELSE <<Head(q)>> \o Eject(Tail(q), i)

(* ----------------------- allocate / release --------------------------- *)
\* a cross-loop path that waits on future.result() with twice the timeout
WaitLimit_CrossTooLong(path) == IF path = "cross" THEN 2 * timeout ELSE timeout

\* seconds allocate_instance waits for ready_queue.get(): future.result(timeout)
\* on the cross-loop path, asyncio.wait_for(..., timeout) on the same loop
WaitLimit(path) == timeout

\* a re-check that puts the dequeued id back twice
Requeue_Twice(q, i) == Append(Append(q, i), i)

\* a re-check that drops the dequeued id instead of putting it back
Requeue_Drops(q, i) == q

\* `ready_queue.put(instance_id)` of lines 437-440: the dequeued id goes to
\* the tail of the queue it is put to
Requeue(q, i) == Append(q, i)

\* a release_instance without the ownership check of line 468
ReleaseAccepted_NoOwnerCheck(insts, i, c) == i \in DOMAIN insts

\* release_instance goes on to destroy (lines 462-470 did not return False)
ReleaseAccepted(insts, i, c) ==
    /\ i \in DOMAIN insts
    /\ insts[i].client_id = c

\* a shutdown that destroys only the instances that became usable
ShutdownTargets_OnlyUsable(insts) ==
    {i \in DOMAIN insts : insts[i].status \in {READY, ALLOCATED}}

\* the ids shutdown() destroys: list(self.instances.keys())
ShutdownTargets(insts) == DOMAIN insts

(* ------------------------------- Init --------------------------------- *)
Init ==
    /\ pool_size \in 1..MaxTarget
    /\ max_pool_size \in 1..MaxMax
    /\ running = FALSE
    /\ started = FALSE
    /\ instances = << >>
    /\ ready_queue = << >>
    /\ stats = [total_created |-> 0, total_allocated |-> 0,
                total_destroyed |-> 0, total_failed |-> 0]
    /\ background_tasks = {}
    /\ pm_pc = "cycle"
    /\ create_tasks = {}
    /\ destroy_calls = {}
    /\ probes = {}
    /\ pc = [c \in Callers |-> "idle"]
    /\ held = [c \in Callers |-> 0]
    /\ waited = [c \in Callers |-> 0]
    /\ orphans = 0
    /\ pending_puts = << >>
    /\ sd_pc = "no"
    /\ next_id = 1
    /\ delete_loops = << >>
    /\ http = [request |-> "none"]
    /\ loop_pc = [l \in Loops |-> "head"]
    /\ provisioner_envs = {}
    /\ client = NewManager

(* ------------------------------ start() ------------------------------- *)
Start ==
    /\ ~started
    /\ started' = TRUE
    /\ running' = TRUE
    /\ background_tasks' = {"pool_manager", "health_checker", "stats_reporter"}
    /\ UNCHANGED <<config, edge, instances, ready_queue, stats, pm_pc, create_tasks,
                   destroy_calls, probes, callerVars, orphans, pending_puts,
                   sd_pc, next_id>>

(* --------------------------- _pool_manager ---------------------------- *)
\* one cycle that finds actual_needed > 0: the records of the new
\* _create_instance coroutines are inserted and the loop awaits gather
PoolManagerCycle ==
    /\ "pool_manager" \in background_tasks
    /\ running
    /\ pm_pc = "cycle"
    /\ CycleNeeded > 0
    /\ next_id + CycleNeeded - 1 <= MaxInst
    /\ LET new == next_id .. (next_id + CycleNeeded - 1)
       IN  /\ instances' = [i \in (DOMAIN instances) \cup new |->
                               IF i \in new THEN NewInstance ELSE instances[i]]
           /\ create_tasks' = create_tasks \cup new
    /\ next_id' = next_id + CycleNeeded
    /\ pm_pc' = "gather"
    /\ UNCHANGED <<config, edge, running, started, ready_queue, stats, background_tasks,
                   destroy_calls, probes, callerVars, orphans, pending_puts,
                   sd_pc>>

\* `await asyncio.gather(*tasks)` returns once every creation has returned
GatherReturns ==
    /\ "pool_manager" \in background_tasks
    /\ pm_pc = "gather"
    /\ create_tasks = {}
    /\ pm_pc' = "cycle"
    /\ UNCHANGED <<config, edge, running, started, instances, ready_queue, stats,
                   background_tasks, create_tasks, destroy_calls, probes,
                   callerVars, orphans, pending_puts, sd_pc, next_id>>


(* -------------------------- _create_instance -------------------------- *)
\* an except clause that marks every record of the registry FAILED
MarkFailed_All(insts, i) ==
    [j \in DOMAIN insts |-> [insts[j] EXCEPT !.status = FAILED, !.error_message = "error"]]

\* an except clause that marks the record FAILED without a message
MarkFailed_NoMessage(insts, i) == [insts EXCEPT ![i].status = FAILED]

\* the except clause of _create_instance on the record (lines 189-190)
MarkFailed(insts, i) ==
    [insts EXCEPT ![i].status = FAILED, ![i].error_message = "error"]

\* manager.create_env() returned env_id and endpoint (lines 161-175)
CreateEnvReturns(i) ==
    /\ i \in create_tasks
    /\ i \in DOMAIN instances
    /\ instances[i].status = CREATING
    /\ instances' = [instances EXCEPT ![i].env_id = "env", ![i].endpoint = "endpoint",
                                      ![i].status = TESTING]
    /\ stats' = Bump(stats, "total_created")
    /\ UNCHANGED <<config, edge, running, started, ready_queue, background_tasks, pm_pc,
                   create_tasks, destroy_calls, probes, callerVars, orphans,
                   pending_puts, sd_pc, next_id>>

\* create_env raised, or returned without env_id / endpoint (lines 167-168,
\* 187-193): FAILED, then _destroy_instance, which has no env_id to delete
CreateEnvFails(i) ==
    /\ i \in create_tasks
    /\ i \in DOMAIN instances
    /\ instances[i].status = CREATING
    /\ LET failed == MarkFailed(instances, i)
           d == DestroyBegin(failed, Bump(stats, "total_failed"), i)
       IN  /\ instances' = d.instances
           /\ stats' = d.stats
           /\ IF d.suspended
              THEN destroy_calls' = destroy_calls \cup {<<i, "create">>} /\ create_tasks' = create_tasks
              ELSE destroy_calls' = destroy_calls /\ create_tasks' = create_tasks \ {i}
    /\ UNCHANGED <<config, edge, running, started, ready_queue, background_tasks, pm_pc,
                   probes, callerVars, orphans, pending_puts, sd_pc, next_id>>

\* _test_instance_api returned True (lines 177-183)
TestApiSucceeds(i) ==
    /\ i \in create_tasks
    /\ i \in DOMAIN instances
    /\ instances[i].status = TESTING
    /\ instances' = [instances EXCEPT ![i].status = READY, ![i].last_health_check = "recent"]
    /\ ready_queue' = Append(ready_queue, i)
    /\ create_tasks' = create_tasks \ {i}
    /\ UNCHANGED <<config, edge, running, started, stats, background_tasks, pm_pc,
                   destroy_calls, probes, callerVars, orphans, pending_puts,
                   sd_pc, next_id>>

\* _test_instance_api returned False (lines 184-193): FAILED, then
\* _destroy_instance, which suspends in delete_env
TestApiFails(i) ==
    /\ i \in create_tasks
    /\ i \in DOMAIN instances
    /\ instances[i].status = TESTING
    /\ LET failed == MarkFailed(instances, i)
           d == DestroyBegin(failed, Bump(stats, "total_failed"), i)
       IN  /\ instances' = d.instances
           /\ stats' = d.stats
           /\ IF d.suspended
              THEN destroy_calls' = destroy_calls \cup {<<i, "create">>} /\ create_tasks' = create_tasks
              ELSE destroy_calls' = destroy_calls /\ create_tasks' = create_tasks \ {i}
    /\ UNCHANGED <<config, edge, running, started, ready_queue, background_tasks, pm_pc,
                   probes, callerVars, orphans, pending_puts, sd_pc, next_id>>

(* ------------------ _destroy_instance, second half -------------------- *)
\* manager.delete_env returned or raised for the call d = <<id, by>>; the
\* finally block runs and the coroutine that awaited the call goes on:
\* _create_instance returns None, release_instance returns True
DeleteEnvReturns(d) ==
    /\ d \in destroy_calls
    /\ LET i == d[1]
           by == d[2]
           f == DestroyFinish(instances, stats, i)
       IN  /\ instances' = f.instances
           /\ stats' = f.stats
           /\ destroy_calls' = destroy_calls \ {d}
           /\ create_tasks' = IF by = "create" THEN create_tasks \ {i} ELSE create_tasks
           /\ IF by \in Callers
              THEN /\ pc' = [pc EXCEPT ![by] = "idle"]
                   /\ held' = [held EXCEPT ![by] = 0]
              ELSE UNCHANGED <<pc, held>>
    /\ UNCHANGED <<config, edge, running, started, ready_queue, background_tasks, pm_pc,
                   probes, waited, orphans, pending_puts, sd_pc, next_id>>

\* a scan that skips the status test of line 322
StaleReady_AnyStatus(insts) ==
    {i \in DOMAIN insts : insts[i].last_health_check # "recent"}

(* --------------------------- _health_checker -------------------------- *)
\* one wake-up of the loop (lines 319-325).  last_health_check is "recent"
\* when it was stamped after the sleep that just ended began, so exactly the
\* READY records that are not "recent" are older than health_check_interval;
\* when the next sleep begins every stamp is older than that sleep.  A probe
\* (requests timeout 120 s) has ended before the next wake-up (1200 s).
StaleReady(insts) ==
    {i \in DOMAIN insts : insts[i].status = READY /\ insts[i].last_health_check # "recent"}

HealthCheckerCycle ==
    /\ "health_checker" \in background_tasks
    /\ running
    /\ probes = {}
    /\ \/ StaleReady(instances) # {}
       \/ \E i \in DOMAIN instances : instances[i].last_health_check = "recent"
    /\ probes' = StaleReady(instances)
    /\ instances' = [i \in DOMAIN instances |->
                        IF instances[i].last_health_check = "recent"
                        THEN [instances[i] EXCEPT !.last_health_check = "old"]
                        ELSE instances[i]]
    /\ UNCHANGED <<config, edge, running, started, ready_queue, stats, background_tasks,
                   pm_pc, create_tasks, destroy_calls, callerVars, orphans,
                   pending_puts, sd_pc, next_id>>

\* _check_instance_health got a 200/201/202 (lines 354-356)
HealthProbeOk(i) ==
    /\ i \in probes
    /\ probes' = probes \ {i}
    /\ instances' = IF i \in DOMAIN instances
                    THEN [instances EXCEPT ![i].last_health_check = "recent"]
                    ELSE instances
    /\ UNCHANGED <<config, edge, running, started, ready_queue, stats, background_tasks,
                   pm_pc, create_tasks, destroy_calls, callerVars, orphans,
                   pending_puts, sd_pc, next_id>>

\* the probe failed or raised: _handle_unhealthy_instance (lines 357-386)
\* drains and rebuilds the queue and starts _destroy_instance
HealthProbeFails(i) ==
    /\ i \in probes
    /\ probes' = probes \ {i}
    /\ ready_queue' = Eject(ready_queue, i)
    /\ LET d == DestroyBegin(instances, stats, i)
       IN  /\ instances' = d.instances
           /\ stats' = d.stats
           /\ destroy_calls' = IF d.suspended THEN destroy_calls \cup {<<i, "health">>}
                               ELSE destroy_calls
    /\ UNCHANGED <<config, edge, running, started, background_tasks, pm_pc, create_tasks,
                   callerVars, orphans, pending_puts, sd_pc, next_id>>


(* -------------------------- allocate_instance ------------------------- *)
\* the call reaches ready_queue.get() (lines 417-431): directly under
\* asyncio.wait_for, or submitted with run_coroutine_threadsafe
AllocateCall(c) ==
    /\ started
    /\ sd_pc = "no"
    /\ pc[c] = "idle"
    /\ pc' = [pc EXCEPT ![c] = "waiting"]
    /\ UNCHANGED <<config, edge, running, started, instances, ready_queue, stats,
                   background_tasks, pm_pc, create_tasks, destroy_calls, probes,
                   held, waited, orphans, pending_puts, sd_pc, next_id>>

\* the caller's ready_queue.get() takes the head of the queue
GetReturns(c) ==
    /\ pc[c] = "waiting"
    /\ ready_queue # << >>
    /\ held' = [held EXCEPT ![c] = Head(ready_queue)]
    /\ ready_queue' = Tail(ready_queue)
    /\ pc' = [pc EXCEPT ![c] = "got"]
    /\ waited' = [waited EXCEPT ![c] = 0]
    /\ UNCHANGED <<config, edge, running, started, instances, stats, background_tasks,
                   pm_pc, create_tasks, destroy_calls, probes,
                   orphans, pending_puts, sd_pc, next_id>>

\* the wait expires (lines 452-454).  asyncio.wait_for cancels its get();
\* future.result(timeout) only stops waiting: the get() submitted to the
\* scheduler's loop stays pending.  At most MaxOrphans such get() are
\* followed: a cross-loop wait whose expiry would leave one more is not
\* followed further
AllocateTimeout(c) ==
    /\ pc[c] = "waiting"
    /\ waited[c] >= WaitLimit(CallerLoop(c))
    /\ CallerLoop(c) = "cross" => orphans < MaxOrphans
    /\ pc' = [pc EXCEPT ![c] = "idle"]
    /\ waited' = [waited EXCEPT ![c] = 0]
    /\ orphans' = IF CallerLoop(c) = "cross" THEN orphans + 1 ELSE orphans
    /\ UNCHANGED <<config, edge, running, started, instances, ready_queue, stats,
                   background_tasks, pm_pc, create_tasks, destroy_calls, probes,
                   held, pending_puts, sd_pc, next_id>>

\* a get() left behind by a timed-out cross-loop caller takes the head of
\* the queue; nobody reads its future
OrphanGetReturns ==
    /\ orphans > 0
    /\ ready_queue # << >>
    /\ ready_queue' = Tail(ready_queue)
    /\ orphans' = orphans - 1
    /\ UNCHANGED <<config, edge, running, started, instances, stats, background_tasks,
                   pm_pc, create_tasks, destroy_calls, probes, callerVars,
                   pending_puts, sd_pc, next_id>>

\* the record of instance i after lines 443-445
Allocated(inst, c) ==
    [inst EXCEPT !.status = ALLOCATED, !.allocated_at = "set", !.client_id = c]

\* lines 433-450 on the scheduler's loop, and lines 433-441 on another loop:
\* re-check of the dequeued id; requeue and None when it is not READY.
\* On the scheduler's loop the ALLOCATED write follows without suspension.
AllocateCheck(c) ==
    /\ pc[c] = "got"
    /\ LET i == held[c]
           ok == i \in DOMAIN instances /\ instances[i].status = READY
       IN  IF ~ok
           THEN /\ IF CallerLoop(c) = "cross"
                   THEN pending_puts' = Requeue(pending_puts, i) /\ ready_queue' = ready_queue
                   ELSE ready_queue' = Requeue(ready_queue, i) /\ pending_puts' = pending_puts
                /\ pc' = [pc EXCEPT ![c] = "idle"]
                /\ held' = [held EXCEPT ![c] = 0]
                /\ UNCHANGED <<instances, stats>>
           ELSE IF CallerLoop(c) = "cross"
           THEN /\ pc' = [pc EXCEPT ![c] = "checked"]
                /\ UNCHANGED <<instances, stats, held, ready_queue, pending_puts>>
           ELSE /\ instances' = [instances EXCEPT ![i] = Allocated(@, c)]
                /\ stats' = Bump(stats, "total_allocated")
                /\ pc' = [pc EXCEPT ![c] = "idle"]
                /\ held' = [held EXCEPT ![c] = 0]
                /\ UNCHANGED <<ready_queue, pending_puts>>
    /\ UNCHANGED <<config, edge, running, started, background_tasks, pm_pc, create_tasks,
                   destroy_calls, probes, waited, orphans, sd_pc, next_id>>

\* lines 443-450 run by a caller on another loop, on its own thread: the
\* write goes to the DockerInstance object it fetched, whatever the
\* scheduler's loop did to that record since the re-check
AllocateWrite(c) ==
    /\ pc[c] = "checked"
    /\ LET i == held[c]
           there == i \in DOMAIN instances
       IN  /\ instances' = IF there THEN [instances EXCEPT ![i] = Allocated(@, c)]
                           ELSE instances
    /\ stats' = Bump(stats, "total_allocated")
    /\ pc' = [pc EXCEPT ![c] = "idle"]
    /\ held' = [held EXCEPT ![c] = 0]
    /\ UNCHANGED <<config, edge, running, started, ready_queue, background_tasks, pm_pc,
                   create_tasks, destroy_calls, probes, waited, orphans,
                   pending_puts, sd_pc, next_id>>

\* a requeue submitted with run_coroutine_threadsafe (line 438) runs
PendingPutRuns ==
    /\ pending_puts # << >>
    /\ ready_queue' = Append(ready_queue, Head(pending_puts))
    /\ pending_puts' = Tail(pending_puts)
    /\ UNCHANGED <<config, edge, running, started, instances, stats, background_tasks,
                   pm_pc, create_tasks, destroy_calls, probes, callerVars, orphans,
                   sd_pc, next_id>>

\* time passes for the callers waiting in get(), in steps of the length of
\* the allocation timeout; a wait that has reached its limit ends before
\* more time passes
Tick ==
    /\ \E c \in Callers : pc[c] = "waiting"
    /\ \A c \in Callers : pc[c] = "waiting" => waited[c] < WaitLimit(CallerLoop(c))
    /\ waited' = [c \in Callers |-> IF pc[c] = "waiting" THEN waited[c] + timeout ELSE waited[c]]
    /\ UNCHANGED <<config, edge, running, started, instances, ready_queue, stats,
                   background_tasks, pm_pc, create_tasks, destroy_calls, probes,
                   pc, held, orphans, pending_puts, sd_pc, next_id>>

(* -------------------------- release_instance -------------------------- *)
\* release_instance(i, c) fails one of its two checks (lines 464-470)
ReleaseRejected(c, i) ==
    /\ started
    /\ sd_pc = "no"
    /\ pc[c] = "idle"
    /\ ~ReleaseAccepted(instances, i, c)
    /\ pc' = [pc EXCEPT ![c] = "rejected"]
    /\ UNCHANGED <<config, edge, running, started, instances, ready_queue, stats,
                   background_tasks, pm_pc, create_tasks, destroy_calls, probes,
                   held, waited, orphans, pending_puts, sd_pc, next_id>>

\* the caller has received the False of lines 466 / 470
ReleaseReturnsFalse(c) ==
    /\ pc[c] = "rejected"
    /\ pc' = [pc EXCEPT ![c] = "idle"]
    /\ UNCHANGED <<config, edge, running, started, instances, ready_queue, stats,
                   background_tasks, pm_pc, create_tasks, destroy_calls, probes,
                   held, waited, orphans, pending_puts, sd_pc, next_id>>

\* release_instance(i, c) passes both checks and awaits _destroy_instance
\* (line 473)
ReleaseDestroys(c, i) ==
    /\ started
    /\ sd_pc = "no"
    /\ pc[c] = "idle"
    /\ ReleaseAccepted(instances, i, c)
    /\ LET d == DestroyBegin(instances, stats, i)
       IN  /\ instances' = d.instances
           /\ stats' = d.stats
           /\ IF d.suspended
              THEN /\ destroy_calls' = destroy_calls \cup {<<i, c>>}
                   /\ pc' = [pc EXCEPT ![c] = "releasing"]
                   /\ held' = [held EXCEPT ![c] = i]
              ELSE /\ destroy_calls' = destroy_calls
                   /\ pc' = [pc EXCEPT ![c] = "idle"]
                   /\ held' = held
    /\ UNCHANGED <<config, edge, running, started, ready_queue, background_tasks, pm_pc,
                   create_tasks, probes, waited, orphans, pending_puts, sd_pc,
                   next_id>>

(* ------------------------------ shutdown() ---------------------------- *)
\* the finally blocks of the _destroy_instance calls in S, one after another
RECURSIVE FinishAll(_, _, _)
FinishAll(insts, st, S) ==
    IF S = {} THEN [instances |-> insts, stats |-> st]
    ELSE LET i == CHOOSE x \in S : TRUE
             f == DestroyFinish(insts, st, i)
             rest == FinishAll(f.instances, f.stats, S \ {i})
         IN  [instances |-> rest.instances, stats |-> rest.stats]

\* _destroy_instance started for every id of S, one after another
RECURSIVE BeginAll(_, _, _)
BeginAll(insts, st, S) ==
    IF S = {} THEN [instances |-> insts, stats |-> st, suspended |-> {}]
    ELSE LET i == CHOOSE x \in S : TRUE
             d == DestroyBegin(insts, st, i)
             rest == BeginAll(d.instances, d.stats, S \ {i})
         IN  [instances |-> rest.instances, stats |-> rest.stats,
              suspended |-> (IF d.suspended THEN {i} ELSE {}) \cup rest.suspended]

\* lines 130-135: running = False, the three loops are cancelled and awaited.
\* Cancelling _pool_manager inside `await asyncio.gather(*tasks)` cancels the
\* _create_instance tasks: CancelledError is not an Exception, so a task
\* waiting for create_env or for the probe ends with its record left as it
\* is, and a task waiting inside _destroy_instance runs the finally block.
ShutdownBegin ==
    /\ started
    /\ sd_pc = "no"
    /\ running' = FALSE
    /\ background_tasks' = {}
    /\ pm_pc' = "done"
    /\ LET inDestroy == {i \in create_tasks : <<i, "create">> \in destroy_calls}
           f == FinishAll(instances, stats, inDestroy)
       IN  /\ instances' = f.instances
           /\ stats' = f.stats
           /\ destroy_calls' = destroy_calls \ {<<i, "create">> : i \in inDestroy}
    /\ create_tasks' = {}
    /\ sd_pc' = "cancelled"
    /\ UNCHANGED <<config, edge, started, ready_queue, probes, callerVars, orphans,
                   pending_puts, next_id>>

\* lines 138-143: _destroy_instance for every id in the registry
ShutdownDestroyAll ==
    /\ sd_pc = "cancelled"
    /\ LET b == BeginAll(instances, stats, ShutdownTargets(instances))
       IN  /\ instances' = b.instances
           /\ stats' = b.stats
           /\ destroy_calls' = destroy_calls \cup {<<i, "shutdown">> : i \in b.suspended}
    /\ sd_pc' = "destroying"
    /\ UNCHANGED <<config, edge, running, started, ready_queue, background_tasks, pm_pc,
                   create_tasks, probes, callerVars, orphans, pending_puts,
                   next_id>>

\* the gather of line 143 is complete: shutdown() returns
ShutdownReturns ==
    /\ sd_pc = "destroying"
    /\ ~\E d \in destroy_calls : d[2] = "shutdown"
    /\ sd_pc' = "done"
    /\ UNCHANGED <<config, edge, running, started, instances, ready_queue, stats,
                   background_tasks, pm_pc, create_tasks, destroy_calls, probes,
                   callerVars, orphans, pending_puts, next_id>>

(* ------------------------------- Next --------------------------------- *)
Next ==
    \/ Start
    \/ PoolManagerCycle
    \/ GatherReturns
    \/ \E i \in InstanceIds : CreateEnvReturns(i)
    \/ \E i \in InstanceIds : CreateEnvFails(i)
    \/ \E i \in InstanceIds : TestApiSucceeds(i)
    \/ \E i \in InstanceIds : TestApiFails(i)
    \/ \E d \in destroy_calls : DeleteEnvReturns(d)
    \/ HealthCheckerCycle
    \/ \E i \in InstanceIds : HealthProbeOk(i)
    \/ \E i \in InstanceIds : HealthProbeFails(i)
    \/ \E c \in Callers : AllocateCall(c)
    \/ \E c \in Callers : GetReturns(c)
    \/ \E c \in Callers : AllocateTimeout(c)
    \/ OrphanGetReturns
    \/ \E c \in Callers : AllocateCheck(c)
    \/ \E c \in Callers : AllocateWrite(c)
    \/ PendingPutRuns
    \/ Tick
    \/ \E c \in Callers, i \in InstanceIds : ReleaseRejected(c, i)
    \/ \E c \in Callers : ReleaseReturnsFalse(c)
    \/ \E c \in Callers, i \in InstanceIds : ReleaseDestroys(c, i)
    \/ ShutdownBegin
    \/ ShutdownDestroyAll
    \/ ShutdownReturns

Spec == Init /\ [][Next]_vars

TypeOK ==
    /\ pool_size \in 1..MaxTarget
    /\ DOMAIN instances \subseteq InstanceIds
    /\ \A i \in DOMAIN instances : instances[i].status \in InstanceStatus


(* -------------------- fairness for progress claims -------------------- *)
DestroyCallIds == InstanceIds \X ({"create", "health", "shutdown"} \cup Callers)

\* the event loop keeps running its ready coroutines and the provisioner
\* answers: the pool manager goes on, a creation gets the answer to its
\* create_env and to its API probe, a delete_env call returns
FairSpec ==
    /\ Spec
    /\ WF_vars(PoolManagerCycle \/ GatherReturns)
    /\ WF_vars(\E i \in InstanceIds : \/ CreateEnvReturns(i) \/ CreateEnvFails(i)
                                       \/ TestApiSucceeds(i) \/ TestApiFails(i))
    /\ WF_vars(\E d \in DestroyCallIds : DeleteEnvReturns(d))

(* ------------------- pools the scheduler can be in -------------------- *)
\* a DockerInstance that passed creation, with status s and owner c
Provisioned(s, c) ==
    [status |-> s, env_id |-> "env", endpoint |-> "endpoint", client_id |-> c,
     allocated_at |-> IF s = ALLOCATED THEN "set" ELSE "None",
     last_health_check |-> "recent", error_message |-> ""]

\* sequences of distinct elements of S
RECURSIVE DistinctSeqs(_)
DistinctSeqs(S) ==
    {<< >>} \cup UNION {{<<x>> \o q : q \in DistinctSeqs(S \ {x})} : x \in S}

\* registries of a scheduler that has generated every id: each id is gone,
\* READY, or ALLOCATED to a client
Registries ==
    UNION {[S -> {Provisioned(READY, "None")}
                    \cup {Provisioned(ALLOCATED, c) : c \in Callers}] :
           S \in SUBSET InstanceIds}

\* registry and queue together: the queue holds ids of READY records and ids
\* whose record is gone (put back by allocate_instance, line 438)
Pools ==
    UNION {{[instances |-> insts, ready_queue |-> q] :
               q \in DistinctSeqs({i \in InstanceIds :
                                      i \in DOMAIN insts => insts[i].status = READY})} :
           insts \in Registries}

\* the counters of a started scheduler whose registry is insts
StatsOf(insts) ==
    [total_created |-> MaxInst,
     total_allocated |-> CountStatus(insts, ALLOCATED),
     total_destroyed |-> MaxInst - Cardinality(DOMAIN insts),
     total_failed |-> 0]

\* the scheduler's state outside registry, queue, counters and destroy calls
schedulerRest == <<config, running, started, background_tasks, pm_pc, create_tasks,
                   probes, callerVars, orphans, pending_puts, sd_pc, next_id, loop_pc,
                   provisioner_envs, client>>

\* a started scheduler with pool p, its creations over and no API call in
\* progress
PoolInit(p) ==
    /\ pool_size = MaxTarget
    /\ max_pool_size = MaxMax
    /\ running = TRUE
    /\ started = TRUE
    /\ instances = p.instances
    /\ ready_queue = p.ready_queue
    /\ stats = StatsOf(p.instances)
    /\ background_tasks = {"pool_manager", "health_checker", "stats_reporter"}
    /\ pm_pc = "cycle"
    /\ create_tasks = {}
    /\ destroy_calls = {}
    /\ probes = {}
    /\ pc = [c \in Callers |-> "idle"]
    /\ held = [c \in Callers |-> 0]
    /\ waited = [c \in Callers |-> 0]
    /\ orphans = 0
    /\ pending_puts = << >>
    /\ sd_pc = "no"
    /\ next_id = MaxInst + 1
    /\ delete_loops = << >>
    /\ http = [request |-> "none"]
    /\ loop_pc = [l \in Loops |-> "head"]
    /\ provisioner_envs = {}
    /\ client = NewManager

(* --------- TioneEnvManager.delete_env inside _destroy_instance -------- *)
\* who calls _destroy_instance in the delete specification: the health
\* checker's ejection, one call per instance
Destroyers == {"health"}

\* what the provisioner raises: TencentCloudSDKException with "record not
\* found request", another TencentCloudSDKException, another exception
ProvisionerErrors == {"not_found", "api_error", "other"}

\* a delete_env loop at position at with num_time_not_found n
Loop(at, n) == [at |-> at, num_time_not_found |-> n]

\* the except clauses of delete_env (docker_client_tione.py lines 147-165)
\* for loop state l and exception e: count and sleep, sleep, or break
OnException(l, e) ==
    IF e = "not_found" THEN Loop("sleep_not_found", l.num_time_not_found + 1)
    ELSE IF e = "api_error" THEN Loop("sleep_retry", l.num_time_not_found)
    ELSE Loop("break", l.num_time_not_found)

\* where the loop goes when the sleep of an except clause ends (lines
\* 152-157, 161): out of the loop after the third "not found", else around
AfterSleep(l) ==
    IF l.at = "sleep_not_found" /\ l.num_time_not_found >= 3
    THEN Loop("break", l.num_time_not_found)
    ELSE Loop("delete", l.num_time_not_found)

SetLoop(d, l) == [x \in DOMAIN delete_loops |-> IF x = d THEN l ELSE delete_loops[x]]

DeleteInit == \E p \in Pools : PoolInit(p)

\* _destroy_instance(i) called by `by` (scheduler lines 224-235): DESTROYING,
\* then delete_env starts with num_time_not_found = 0
DestroyCall(i, by) ==
    /\ <<i, by>> \notin destroy_calls
    /\ LET d == DestroyBegin(instances, stats, i)
       IN  /\ d.suspended
           /\ instances' = d.instances
           /\ stats' = d.stats
    /\ destroy_calls' = destroy_calls \cup {<<i, by>>}
    /\ delete_loops' = [x \in DOMAIN delete_loops \cup {<<i, by>>} |->
                           IF x = <<i, by>> THEN Loop("delete", 0) ELSE delete_loops[x]]
    /\ UNCHANGED <<schedulerRest, ready_queue, http>>

\* DeleteAgentToolEnv returned (lines 135-139): sleep 15, then describe_env
DeleteCallReturns(d) ==
    /\ d \in DOMAIN delete_loops
    /\ delete_loops[d].at = "delete"
    /\ delete_loops' = SetLoop(d, Loop("describe", delete_loops[d].num_time_not_found))
    /\ UNCHANGED <<schedulerRest, instances, ready_queue, stats, destroy_calls, http>>

\* DeleteAgentToolEnv raised e
DeleteCallRaises(d, e) ==
    /\ d \in DOMAIN delete_loops
    /\ delete_loops[d].at = "delete"
    /\ delete_loops' = SetLoop(d, OnException(delete_loops[d], e))
    /\ UNCHANGED <<schedulerRest, instances, ready_queue, stats, destroy_calls, http>>

\* describe_env returned a status: the environment still exists, and the
\* loop goes around to delete it again (lines 142-145)
DescribeReturns(d) ==
    /\ d \in DOMAIN delete_loops
    /\ delete_loops[d].at = "describe"
    /\ delete_loops' = SetLoop(d, Loop("delete", delete_loops[d].num_time_not_found))
    /\ UNCHANGED <<schedulerRest, instances, ready_queue, stats, destroy_calls, http>>

\* describe_env raised e
DescribeRaises(d, e) ==
    /\ d \in DOMAIN delete_loops
    /\ delete_loops[d].at = "describe"
    /\ delete_loops' = SetLoop(d, OnException(delete_loops[d], e))
    /\ UNCHANGED <<schedulerRest, instances, ready_queue, stats, destroy_calls, http>>

\* the asyncio.sleep(5) of an except clause ends
SleepEnds(d) ==
    /\ d \in DOMAIN delete_loops
    /\ delete_loops[d].at \in {"sleep_not_found", "sleep_retry"}
    /\ delete_loops' = SetLoop(d, AfterSleep(delete_loops[d]))
    /\ UNCHANGED <<schedulerRest, instances, ready_queue, stats, destroy_calls, http>>

\* delete_env left its loop and returned: the finally block of
\* _destroy_instance runs (scheduler lines 239-243)
DeleteLoopEnds(d) ==
    /\ d \in DOMAIN delete_loops
    /\ delete_loops[d].at = "break"
    /\ LET f == DestroyFinish(instances, stats, d[1])
       IN  /\ instances' = f.instances
           /\ stats' = f.stats
    /\ destroy_calls' = destroy_calls \ {d}
    /\ delete_loops' = [x \in DOMAIN delete_loops \ {d} |-> delete_loops[x]]
    /\ UNCHANGED <<schedulerRest, ready_queue, http>>

\* the steps of the delete_env call d
DeleteStep(d) ==
    \/ DeleteCallReturns(d)
    \/ \E e \in ProvisionerErrors : DeleteCallRaises(d, e)
    \/ DescribeReturns(d)
    \/ \E e \in ProvisionerErrors : DescribeRaises(d, e)
    \/ SleepEnds(d)
    \/ DeleteLoopEnds(d)

DeleteNext ==
    \/ \E i \in InstanceIds, by \in Destroyers : DestroyCall(i, by)
    \/ \E d \in InstanceIds \X Destroyers : DeleteCallReturns(d)
    \/ \E d \in InstanceIds \X Destroyers, e \in ProvisionerErrors : DeleteCallRaises(d, e)
    \/ \E d \in InstanceIds \X Destroyers : DescribeReturns(d)
    \/ \E d \in InstanceIds \X Destroyers, e \in ProvisionerErrors : DescribeRaises(d, e)
    \/ \E d \in InstanceIds \X Destroyers : SleepEnds(d)
    \/ \E d \in InstanceIds \X Destroyers : DeleteLoopEnds(d)

\* the event loop runs every delete_env call on, and the provisioner answers
\* each of its requests
DeleteSpec ==
    /\ DeleteInit
    /\ [][DeleteNext]_vars
    /\ \A d \in InstanceIds \X Destroyers : WF_vars(DeleteStep(d))

(* ------------------------- aiohttp handlers --------------------------- *)
\* the client_id field of a request body: absent, empty, or a client's id
RequestClientIds == {"missing", ""} \cup Callers

\* the instance_id field of a request body; 0 is an absent or empty field
RequestInstanceIds == {0} \cup InstanceIds

\* the None allocate_instance returns when it grants nothing
NoGrant == [instance_id |-> 0, client_id |-> "None", status |-> "None"]

\* instance.to_dict() (lines 69-77, 448), the fields a client reads
to_dict(i, inst) == [instance_id |-> i, client_id |-> inst.client_id, status |-> inst.status]

\* data.get('client_id', 'unknown') (line 517)
ClientIdOrUnknown(f) == IF f = "missing" THEN "unknown" ELSE f

\* a validation that looks at instance_id only
FieldsMissing_NoClientCheck(instance_id, client_id) == instance_id = 0

\* `not instance_id or not client_id` (line 536)
FieldsMissing(instance_id, client_id) ==
    instance_id = 0 \/ client_id \in {"missing", ""}

\* allocate_instance(client_id) awaited by the handler on the scheduler's
\* loop (lines 420-458): the exception of a scheduler that was not started
\* (ready_queue is None) and the timeout on an empty queue give None; else
\* the head of the queue is granted if its record is READY, put back if not
AllocateOutcome(insts, q, st, client_id) ==
    IF ~started \/ q = << >>
    THEN [instances |-> insts, ready_queue |-> q, stats |-> st, result |-> NoGrant]
    ELSE LET i == Head(q)
         IN  IF i \in DOMAIN insts /\ insts[i].status = READY
             THEN LET a == [insts EXCEPT ![i] = Allocated(@, client_id)]
                  IN  [instances |-> a, ready_queue |-> Tail(q),
                       stats |-> Bump(st, "total_allocated"), result |-> to_dict(i, a[i])]
             ELSE [instances |-> insts, ready_queue |-> Requeue(Tail(q), i),
                   stats |-> st, result |-> NoGrant]

\* release_instance(i, c) awaited by the handler until _destroy_instance
\* has returned (lines 460-474)
ReleaseOutcome(insts, st, i, c) ==
    IF ReleaseAccepted(insts, i, c)
    THEN LET b == DestroyBegin(insts, st, i)
             f == DestroyFinish(b.instances, b.stats, i)
         IN  [instances |-> f.instances, stats |-> f.stats, success |-> TRUE]
    ELSE [instances |-> insts, stats |-> st, success |-> FALSE]

\* the response of allocate_instance_handler to `result` (lines 521-527)
AllocateResponse(result) ==
    IF result # NoGrant
    THEN [status |-> 200, success |-> TRUE, data |-> result, error |-> ""]
    ELSE [status |-> 503, success |-> FALSE, data |-> NoGrant,
          error |-> "No available instances, please try again later."]

\* the response of release_instance_handler to missing fields (lines 536-540)
RequiredResponse ==
    [status |-> 400, success |-> FALSE, data |-> NoGrant,
     error |-> "instance_id and client_id are required"]

\* the response of release_instance_handler to `success` (lines 544-550)
ReleaseResponse(success) ==
    IF success
    THEN [status |-> 200, success |-> TRUE, data |-> NoGrant, error |-> ""]
    ELSE [status |-> 400, success |-> FALSE, data |-> NoGrant,
          error |-> "Failed to release instance."]

\* requests reach the handlers of a started scheduler, or of one whose
\* start() task (on_startup, line 557) has not run yet
HandlerInit ==
    \/ \E p \in Pools : PoolInit(p)
    \/ Init

\* POST /allocate with client_id field f (lines 513-527)
HandleAllocate(f) ==
    /\ LET o == AllocateOutcome(instances, ready_queue, stats, ClientIdOrUnknown(f))
       IN  /\ instances' = o.instances
           /\ ready_queue' = o.ready_queue
           /\ stats' = o.stats
           /\ http' = [request |-> "allocate", instance_id |-> 0, client_id |-> f,
                       called |-> TRUE, result |-> o.result, success |-> FALSE,
                       response |-> AllocateResponse(o.result)]
    /\ UNCHANGED <<schedulerRest, destroy_calls, delete_loops>>

\* POST /release with fields instance_id and client_id (lines 530-550)
HandleRelease(instance_id, client_id) ==
    /\ IF FieldsMissing(instance_id, client_id)
       THEN /\ http' = [request |-> "release", instance_id |-> instance_id,
                        client_id |-> client_id, called |-> FALSE, result |-> NoGrant,
                        success |-> FALSE, response |-> RequiredResponse]
            /\ UNCHANGED <<instances, stats>>
       ELSE LET o == ReleaseOutcome(instances, stats, instance_id, client_id)
            IN  /\ instances' = o.instances
                /\ stats' = o.stats
                /\ http' = [request |-> "release", instance_id |-> instance_id,
                            client_id |-> client_id, called |-> TRUE, result |-> NoGrant,
                            success |-> o.success, response |-> ReleaseResponse(o.success)]
    /\ UNCHANGED <<schedulerRest, ready_queue, destroy_calls, delete_loops>>

HandlerNext ==
    \/ \E f \in RequestClientIds : HandleAllocate(f)
    \/ \E i \in RequestInstanceIds, f \in RequestClientIds : HandleRelease(i, f)

HandlerSpec == HandlerInit /\ [][HandlerNext]_vars

(* ---------------- allocate_instance on a filled queue ----------------- *)
\* the first n ids, READY, in the queue in the order in which they became
\* READY (the order of the ids)
FilledPool(n) ==
    [instances |-> [i \in 1..n |-> Provisioned(READY, "None")],
     ready_queue |-> [k \in 1..n |-> k]]

\* a started scheduler whose creations put n ids on the queue, with the
\* get() of earlier timed-out cross-loop calls still pending on its loop
QueueInit ==
    \E n \in 1..MaxInst, o \in 0..MaxOrphans :
       /\ pool_size = MaxTarget
       /\ max_pool_size = MaxMax
       /\ running = TRUE
       /\ started = TRUE
       /\ instances = FilledPool(n).instances
       /\ ready_queue = FilledPool(n).ready_queue
       /\ stats = StatsOf(FilledPool(n).instances)
       /\ background_tasks = {"pool_manager", "health_checker", "stats_reporter"}
       /\ pm_pc = "cycle"
       /\ create_tasks = {}
       /\ destroy_calls = {}
       /\ probes = {}
       /\ pc = [c \in Callers |-> "idle"]
       /\ held = [c \in Callers |-> 0]
       /\ waited = [c \in Callers |-> 0]
       /\ orphans = o
       /\ pending_puts = << >>
       /\ sd_pc = "no"
       /\ next_id = MaxInst + 1
       /\ delete_loops = << >>
       /\ http = [request |-> "none"]
       /\ loop_pc = [l \in Loops |-> "head"]
       /\ provisioner_envs = {}
       /\ client = NewManager

\* the steps of allocate_instance alone
QueueNext ==
    \/ \E c \in Callers : AllocateCall(c)
    \/ \E c \in Callers : GetReturns(c)
    \/ \E c \in Callers : AllocateTimeout(c)
    \/ OrphanGetReturns
    \/ \E c \in Callers : AllocateCheck(c)
    \/ \E c \in Callers : AllocateWrite(c)
    \/ Tick

QueueSpec == QueueInit /\ [][QueueNext]_vars

(* ------------- the try / except frame of the background loops --------- *)
\* an except clause that lets the exception end the loop
OnIterationError_Ends(l) == "ended"

\* where `except Exception` takes loop l (lines 310-312, 329-331, 396-397):
\* _pool_manager and _health_checker sleep 10 s, _stats_reporter goes back
\* to the head of the loop
OnIterationError(l) == IF l = "stats_reporter" THEN "head" ELSE "backoff"

LoopInit == \E p \in Pools : PoolInit(p)

\* `while self.running:` is true and the try block is entered
IterationBegins(l) ==
    /\ loop_pc[l] = "head"
    /\ running
    /\ loop_pc' = [loop_pc EXCEPT ![l] = "body"]
    /\ UNCHANGED <<config, delete_loops, http, provisioner_envs, client, running, started, instances, ready_queue,
                   stats, background_tasks, pm_pc, create_tasks, destroy_calls, probes,
                   callerVars, orphans, pending_puts, sd_pc, next_id>>

\* the try block runs to its end, its sleep included
IterationEnds(l) ==
    /\ loop_pc[l] = "body"
    /\ loop_pc' = [loop_pc EXCEPT ![l] = "head"]
    /\ UNCHANGED <<config, delete_loops, http, provisioner_envs, client, running, started, instances, ready_queue,
                   stats, background_tasks, pm_pc, create_tasks, destroy_calls, probes,
                   callerVars, orphans, pending_puts, sd_pc, next_id>>

\* something in the try block raises an Exception
IterationRaises(l) ==
    /\ loop_pc[l] = "body"
    /\ loop_pc' = [loop_pc EXCEPT ![l] = OnIterationError(l)]
    /\ UNCHANGED <<config, delete_loops, http, provisioner_envs, client, running, started, instances, ready_queue,
                   stats, background_tasks, pm_pc, create_tasks, destroy_calls, probes,
                   callerVars, orphans, pending_puts, sd_pc, next_id>>

\* the asyncio.sleep(10) of the except clause ends
BackoffEnds(l) ==
    /\ loop_pc[l] = "backoff"
    /\ loop_pc' = [loop_pc EXCEPT ![l] = "head"]
    /\ UNCHANGED <<config, delete_loops, http, provisioner_envs, client, running, started, instances, ready_queue,
                   stats, background_tasks, pm_pc, create_tasks, destroy_calls, probes,
                   callerVars, orphans, pending_puts, sd_pc, next_id>>

\* shutdown() (lines 130-135): running = False and task.cancel() for the
\* three loops; CancelledError ends each of them wherever it waits
LoopsCancelled ==
    /\ sd_pc = "no"
    /\ running' = FALSE
    /\ background_tasks' = {}
    /\ pm_pc' = "done"
    /\ sd_pc' = "cancelled"
    /\ loop_pc' = [l \in Loops |-> "ended"]
    /\ UNCHANGED <<config, delete_loops, http, provisioner_envs, client, started, instances, ready_queue, stats,
                   create_tasks, destroy_calls, probes, callerVars, orphans,
                   pending_puts, next_id>>

\* the steps of loop l
LoopStep(l) ==
    \/ IterationBegins(l)
    \/ IterationEnds(l)
    \/ IterationRaises(l)
    \/ BackoffEnds(l)

LoopNext ==
    \/ \E l \in Loops : IterationBegins(l)
    \/ \E l \in Loops : IterationEnds(l)
    \/ \E l \in Loops : IterationRaises(l)
    \/ \E l \in Loops : BackoffEnds(l)
    \/ LoopsCancelled

\* the event loop runs every background task on; an iteration, its sleeps
\* included, comes to an end
LoopSpec ==
    /\ LoopInit
    /\ [][LoopNext]_vars
    /\ \A l \in Loops : WF_vars(IterationBegins(l) \/ IterationEnds(l) \/ BackoffEnds(l))

(* ------------------- creations launched in one cycle ------------------ *)
\* the scheduler right after a cycle of _pool_manager launched n creations
\* at once (lines 289-290; the source's concurrent_creation_limit of 128
\* lets the first cycle launch the whole pool): n CREATING records, their
\* tasks gathered
FanOutInit ==
    \E n \in 2..MaxInst :
       /\ pool_size = MaxTarget
       /\ max_pool_size = MaxMax
       /\ running = TRUE
       /\ started = TRUE
       /\ instances = [i \in 1..n |-> NewInstance]
       /\ ready_queue = << >>
       /\ stats = [total_created |-> 0, total_allocated |-> 0,
                   total_destroyed |-> 0, total_failed |-> 0]
       /\ background_tasks = {"pool_manager", "health_checker", "stats_reporter"}
       /\ pm_pc = "gather"
       /\ create_tasks = 1..n
       /\ destroy_calls = {}
       /\ probes = {}
       /\ pc = [c \in Callers |-> "idle"]
       /\ held = [c \in Callers |-> 0]
       /\ waited = [c \in Callers |-> 0]
       /\ orphans = 0
       /\ pending_puts = << >>
       /\ sd_pc = "no"
       /\ next_id = n + 1
       /\ delete_loops = << >>
       /\ http = [request |-> "none"]
       /\ loop_pc = [l \in Loops |-> "head"]
       /\ provisioner_envs = {}
       /\ client = NewManager

\* the gathered creations, the destroy calls they and shutdown() make
FanOutNext ==
    \/ \E i \in InstanceIds : CreateEnvReturns(i)
    \/ \E i \in InstanceIds : CreateEnvFails(i)
    \/ \E i \in InstanceIds : TestApiSucceeds(i)
    \/ \E i \in InstanceIds : TestApiFails(i)
    \/ \E d \in destroy_calls : DeleteEnvReturns(d)
    \/ GatherReturns
    \/ ShutdownBegin
    \/ ShutdownDestroyAll
    \/ ShutdownReturns

FanOutSpec == FanOutInit /\ [][FanOutNext]_vars

(* ---------------------- the pool left to itself ----------------------- *)
\* a started scheduler with target <= max and an empty registry, after the
\* last allocate call returned: a call that timed out on the cross-loop
\* path (lines 424-431) has left its ready_queue.get() pending
SteadyInit ==
    /\ pool_size \in 1..MaxTarget
    /\ max_pool_size \in pool_size..MaxMax
    /\ running = TRUE
    /\ started = TRUE
    /\ instances = << >>
    /\ ready_queue = << >>
    /\ stats = [total_created |-> 0, total_allocated |-> 0,
                total_destroyed |-> 0, total_failed |-> 0]
    /\ background_tasks = {"pool_manager", "health_checker", "stats_reporter"}
    /\ pm_pc = "cycle"
    /\ create_tasks = {}
    /\ destroy_calls = {}
    /\ probes = {}
    /\ pc = [c \in Callers |-> "idle"]
    /\ held = [c \in Callers |-> 0]
    /\ waited = [c \in Callers |-> 0]
    /\ orphans \in 0..MaxOrphans
    /\ pending_puts = << >>
    /\ sd_pc = "no"
    /\ next_id = 1
    /\ delete_loops = << >>
    /\ http = [request |-> "none"]
    /\ loop_pc = [l \in Loops |-> "head"]
    /\ provisioner_envs = {}
    /\ client = NewManager

\* no allocate, no release, no shutdown; every create_env returns, every
\* API probe and every health probe succeeds
SteadyNext ==
    \/ PoolManagerCycle
    \/ GatherReturns
    \/ \E i \in InstanceIds : CreateEnvReturns(i)
    \/ \E i \in InstanceIds : TestApiSucceeds(i)
    \/ OrphanGetReturns
    \/ HealthCheckerCycle
    \/ \E i \in InstanceIds : HealthProbeOk(i)

\* the event loop runs the pool manager and the provisioner answers
SteadySpec ==
    /\ SteadyInit
    /\ [][SteadyNext]_vars
    /\ WF_vars(PoolManagerCycle \/ GatherReturns)
    /\ WF_vars(\E i \in InstanceIds : CreateEnvReturns(i) \/ TestApiSucceeds(i))

(* ------------------- create_env at the provisioner -------------------- *)
\* create_env of docker_client_tione.py in its two parts: the provisioner
\* answers CreateAgentToolEnv (lines 99-106), the environment now exists
\* and its EnvId is known to the TioneEnvManager object only
CreateToolEnvAnswered(i) ==
    /\ i \in create_tasks
    /\ i \in DOMAIN instances
    /\ instances[i].status = CREATING
    /\ i \notin provisioner_envs
    /\ provisioner_envs' = provisioner_envs \cup {i}
    /\ UNCHANGED <<config, delete_loops, http, loop_pc, client, running, started,
                   instances, ready_queue, stats, background_tasks, pm_pc,
                   create_tasks, destroy_calls, probes, callerVars, orphans,
                   pending_puts, sd_pc, next_id>>

\* the polling of lines 110-118 ends and create_env returns env_id and
\* endpoint of the environment the provisioner created
CreateEnvCompletes(i) ==
    /\ i \in provisioner_envs
    /\ CreateEnvReturns(i)

\* the scheduler's creations and its shutdown, with the provisioner's side
\* of create_env followed; create_env may raise before the provisioner
\* created the environment or while polling it
ProvisionNext ==
    \/ Start
    \/ PoolManagerCycle
    \/ GatherReturns
    \/ \E i \in InstanceIds : CreateToolEnvAnswered(i)
    \/ \E i \in InstanceIds : CreateEnvCompletes(i)
    \/ \E i \in InstanceIds : CreateEnvFails(i)
    \/ \E i \in InstanceIds : TestApiSucceeds(i)
    \/ \E i \in InstanceIds : TestApiFails(i)
    \/ \E d \in destroy_calls : DeleteEnvReturns(d)
    \/ ShutdownBegin
    \/ ShutdownDestroyAll
    \/ ShutdownReturns

ProvisionSpec == Init /\ [][ProvisionNext]_vars

(* ------------- the client API methods called directly ----------------- *)
\* the values a caller of release_instance can pass as client_id: None, the
\* empty string, a client's id
ReleaseClientIds == {"None", ""} \cup Callers

\* allocate_instance(c) called on the scheduler's loop and run to its return
\* (lines 414-458)
AllocateInstance(c) ==
    /\ LET o == AllocateOutcome(instances, ready_queue, stats, c)
       IN  /\ instances' = o.instances
           /\ ready_queue' = o.ready_queue
           /\ stats' = o.stats
           /\ http' = [request |-> "allocate_instance", client_id |-> c,
                       result |-> o.result]
    /\ UNCHANGED <<schedulerRest, destroy_calls, delete_loops>>

\* release_instance(i, c) called on the scheduler's loop and run to its
\* return (lines 460-474)
ReleaseInstance(i, c) ==
    /\ LET o == ReleaseOutcome(instances, stats, i, c)
       IN  /\ instances' = o.instances
           /\ stats' = o.stats
           /\ http' = [request |-> "release_instance", instance_id |-> i,
                       client_id |-> c, success |-> o.success]
    /\ UNCHANGED <<schedulerRest, ready_queue, destroy_calls, delete_loops>>

DirectInit == \E p \in Pools : PoolInit(p)

DirectNext ==
    \/ \E c \in Callers : AllocateInstance(c)
    \/ \E i \in InstanceIds, c \in ReleaseClientIds : ReleaseInstance(i, c)

DirectSpec == DirectInit /\ [][DirectNext]_vars

(* ------------- AdvancedDockerManager (mobile_session.py) -------------- *)
\* what a POST /allocate can bring: 200 with success and data, 200 without,
\* 503, another status (raise_for_status raises), an exception (timeout,
\* connection error, any other)
AllocateResponses == {"granted", "200_no_data", "503", "other_status", "raised"}

\* what a POST /release can bring: 200 with success, 200 without, a 4xx/5xx
\* status (raise_for_status raises), an exception
ReleaseResponses == {"accepted", "200_no_success", "rejected", "raised"}

\* everything but the manager
managerFrame == <<config, delete_loops, http, loop_pc, provisioner_envs, running,
                  started, instances, ready_queue, stats, background_tasks, pm_pc,
                  create_tasks, destroy_calls, probes, callerVars, orphans,
                  pending_puts, sd_pc, next_id>>

\* a wait after 503 that retries the same attempt
NextAttempt_SameAttempt(m) == [m EXCEPT !.at = "request"]

\* the for loop of line 66 takes its next value, or ends: the return of
\* lines 122-126
NextAttempt(m) ==
    IF m.attempt + 1 < max_retries
    THEN [m EXCEPT !.attempt = @ + 1, !.at = "request"]
    ELSE [m EXCEPT !.at = "returned", !.result = "failure"]

\* one pass of the loop body of _request_instance_async up to its sleep
\* (lines 67-120): the request is sent and response resp handled; the grant
\* carries instance id i
OnAllocateResponse(m, resp, i) ==
    LET got == [m EXCEPT !.sent = @ + 1, !.response = resp]
    IN  IF resp = "granted"
        THEN [got EXCEPT !.instance_id = i, !.ip_port = "endpoint",
                         !.at = "returned", !.result = "success"]
        ELSE IF resp = "503"
        THEN [got EXCEPT !.at = "sleep_503"]
        ELSE IF m.attempt < max_retries - 1
        THEN [got EXCEPT !.at = "sleep_retry"]
        ELSE NextAttempt(got)

\* a finally block that leaves the local record as it is
ReleaseFinally_Keeps(m) == m

\* the finally block of release_instance (lines 173-176)
ReleaseFinally(m) == [m EXCEPT !.instance_id = 0, !.ip_port = "None"]

\* release_instance from its first line to its return (lines 128-176)
OnRelease(m, resp) ==
    LET called == [m EXCEPT !.call = "release", !.at = "returned", !.attempt = 0]
    IN  IF m.instance_id = 0
        THEN [called EXCEPT !.sent = 0, !.response = "none", !.result = "success"]
        ELSE LET got == [called EXCEPT !.sent = 1, !.response = resp]
             IN  IF resp = "accepted"
                 THEN ReleaseFinally([got EXCEPT !.instance_id = 0, !.ip_port = "None",
                                                 !.result = "success"])
                 ELSE ReleaseFinally([got EXCEPT !.result = "failure"])

\* request_instance is called (lines 56-66)
ManagerRequest ==
    /\ client.at \in {"idle", "returned"}
    /\ client' = [client EXCEPT !.call = "request", !.at = "request", !.attempt = 0,
                                !.sent = 0, !.response = "none", !.result = "none"]
    /\ UNCHANGED managerFrame

\* the request of the current attempt is answered
ManagerSend(resp, i) ==
    /\ client.at = "request"
    /\ client' = OnAllocateResponse(client, resp, i)
    /\ UNCHANGED managerFrame

\* asyncio.sleep of line 103 or 120 ends
ManagerSleepEnds ==
    /\ client.at \in {"sleep_503", "sleep_retry"}
    /\ client' = NextAttempt(client)
    /\ UNCHANGED managerFrame

\* release_instance is called and returns
ManagerRelease(resp) ==
    /\ client.at \in {"idle", "returned"}
    /\ client' = OnRelease(client, resp)
    /\ UNCHANGED managerFrame

ManagerRuns ==
    \/ \E resp \in AllocateResponses, i \in InstanceIds : ManagerSend(resp, i)
    \/ ManagerSleepEnds

ManagerNext ==
    \/ ManagerRequest
    \/ ManagerRuns
    \/ \E resp \in ReleaseResponses : ManagerRelease(resp)

\* every request is answered or times out, every sleep ends
ManagerSpec == Init /\ [][ManagerNext]_vars /\ WF_vars(ManagerRuns)

(* ------------------------------ claims -------------------------------- *)
total_active == Len(ready_queue) + CountStatus(instances, CREATING) + CountStatus(instances, TESTING)

\* the status edges the state machine allows
AllowedEdges ==
    {<<CREATING, TESTING>>, <<TESTING, READY>>, <<READY, ALLOCATED>>,
     <<READY, DESTROYING>>, <<ALLOCATED, DESTROYING>>, <<FAILED, DESTROYING>>}
    \cup {<<s, FAILED>> : s \in InstanceStatus \ {FAILED}}

\* C1: every status change of a record follows an allowed edge.  A step that
\* sets error_message / counts total_failed went through FAILED on the way
\* (x -> FAILED -> DESTROYING); a record leaves the registry from DESTROYING.
C1_OnlyAllowedEdges ==
    [][\A i \in DOMAIN instances :
          LET old == instances[i].status
          IN  IF i \in DOMAIN instances'
              THEN LET new == instances'[i].status
                   IN  \/ new = old
                       \/ <<old, new>> \in AllowedEdges
                       \/ /\ new = DESTROYING
                          /\ instances[i].error_message = ""
                          /\ instances'[i].error_message # ""
              ELSE \/ old = DESTROYING
                   \/ stats'.total_failed = stats.total_failed + 1
      ]_vars

\* the step in which allocate_instance of caller c returns a grant
Grants(c) ==
    /\ pc[c] \in {"got", "checked"}
    /\ pc'[c] = "idle"
    /\ stats'.total_allocated = stats.total_allocated + 1

\* C2: when allocate returns a grant for X, the record of X is in the
\* registry and its status was READY right before ALLOCATED was written.
C2_GrantOnlyReady ==
    [][\A c \in Callers :
          Grants(c) => /\ held[c] \in DOMAIN instances
                       /\ instances[held[c]].status = READY
      ]_vars

\* C3: the registry never holds more than max_pool_size records.
C3_TotalAtMostMax == Cardinality(DOMAIN instances) <= max_pool_size

\* the pool is full while the pool manager still sees a deficit
C3_Witness ==
    /\ running
    /\ pm_pc = "cycle"
    /\ Cardinality(DOMAIN instances) = max_pool_size
    /\ pool_size - total_active > 0
    /\ \E i \in DOMAIN instances : instances[i].status = ALLOCATED

\* C4: CREATING plus TESTING records never exceed the concurrent-creation limit.
C4_OngoingAtMostLimit ==
    CountStatus(instances, CREATING) + CountStatus(instances, TESTING)
        <= concurrent_creation_limit

\* the limit, not the deficit or the capacity, is what held a cycle back
C4_Witness ==
    /\ pm_pc = "gather"
    /\ CountStatus(instances, CREATING) + CountStatus(instances, TESTING)
          = concurrent_creation_limit
    /\ pool_size - total_active > 0
    /\ max_pool_size - Cardinality(DOMAIN instances) > 0

\* C5: a caller never waits in get() longer than the allocation timeout, on
\* either path; a wait that reaches the timeout with the queue still empty
\* ends with no grant and nothing changed.
C5_BoundedWait ==
    /\ [](\A c \in Callers : pc[c] = "waiting" => waited[c] <= timeout)
    /\ [][\A c \in Callers :
             (/\ pc[c] = "waiting" /\ waited[c] = timeout /\ ready_queue = << >>
              /\ pc'[c] # "waiting")
             => /\ pc'[c] = "idle"
                /\ held'[c] = 0
                /\ UNCHANGED <<instances, ready_queue, stats>>
        ]_vars

\* a cross-loop caller has timed out before and the same-loop caller has
\* waited for the whole timeout with nothing in the queue
C5_Witness ==
    /\ orphans > 0
    /\ pc["c1"] = "waiting"
    /\ waited["c1"] = timeout
    /\ ready_queue = << >>

\* C6: release_instance with an unknown id or a foreign client_id is rejected
\* and changes nothing; only the owner's call goes on to destroy.
C6_RejectedReleaseChangesNothing ==
    [][\A c \in Callers :
          /\ (pc[c] = "idle" /\ pc'[c] = "rejected")
                => UNCHANGED <<instances, ready_queue, stats, destroy_calls>>
          /\ (pc[c] = "idle" /\ pc'[c] = "releasing")
                => /\ held'[c] \in DOMAIN instances
                   /\ instances[held'[c]].client_id = c
      ]_vars

\* a caller is being refused while the other one owns an ALLOCATED instance
C6_Witness ==
    \E c \in Callers :
       /\ pc[c] = "rejected"
       /\ \E i \in DOMAIN instances :
             /\ instances[i].status = ALLOCATED
             /\ instances[i].client_id \in Callers \ {c}

\* instance id i is in the queue, on its way into it, or held by a caller
InFlight(i) ==
    \/ i \in Range(ready_queue)
    \/ i \in Range(pending_puts)
    \/ \E c \in Callers : pc[c] \in {"got", "checked"} /\ held[c] = i

\* C7: a released instance is gone for good.  When the owner's release
\* returns True the record is out of the registry; an id that left the
\* registry never comes back; an instance that was handed to a client is
\* neither queued nor held for another grant, and no id outside the queue
\* gets into it except the fresh id of a record that just became READY.
C7_ReleasedNeverReused ==
    /\ [](\A i \in DOMAIN instances :
             instances[i].client_id # "None" => ~InFlight(i))
    /\ [][/\ \A c \in Callers :
                (pc[c] = "releasing" /\ pc'[c] = "idle")
                   => held[c] \notin DOMAIN instances'
          /\ \A i \in InstanceIds :
                (i < next_id /\ i \notin DOMAIN instances) => i \notin DOMAIN instances'
          /\ \A i \in InstanceIds :
                (/\ ~InFlight(i)
                 /\ ~(i \in DOMAIN instances /\ instances[i].status = TESTING))
                   => ~InFlight(i)'
        ]_vars

\* the owner's release was accepted and is destroying the instance while
\* the other caller waits in allocate_instance for an id
C7_Witness ==
    \E c \in Callers :
       /\ pc[c] = "releasing"
       /\ held[c] \in DOMAIN instances
       /\ instances[held[c]].status = DESTROYING
       /\ instances[held[c]].client_id = c
       /\ <<held[c], c>> \in destroy_calls
       /\ \E o \in Callers \ {c} : pc[o] = "waiting"

\* C8: the pool manager does not wait for the creations it launched: while
\* one of them is CREATING or TESTING it is still free to run a cycle.
C8_CyclesWhileCreating ==
    (running /\ \E i \in DOMAIN instances : instances[i].status \in {CREATING, TESTING})
        => pm_pc = "cycle"

\* C9: when shutdown() has returned, every background loop has stopped and
\* the registry is empty, and it stays so.
C9_ShutdownLeavesNothing ==
    sd_pc = "done" =>
        /\ ~running
        /\ background_tasks = {}
        /\ create_tasks = {}
        /\ DOMAIN instances = {}

\* shutdown returned after destroying two instances, one of which never got
\* past CREATING
C9_Witness ==
    /\ sd_pc = "done"
    /\ stats.total_destroyed = 2
    /\ stats.total_created = 1
    /\ stats.total_failed = 0

\* the step in which the failed probe of READY instance i is handled
Ejects(i) ==
    /\ i \in probes
    /\ i \notin probes'
    /\ i \in DOMAIN instances
    /\ instances[i].status = READY
    /\ i \in DOMAIN instances'
    /\ instances'[i].status # READY

\* the pool manager sees a deficit it is allowed to fill
Deficit ==
    /\ running
    /\ pool_size - total_active > 0
    /\ max_pool_size - Cardinality(DOMAIN instances) > 0

\* the model has no fresh instance id left for the next cycle
IdsExhausted == next_id + CycleNeeded - 1 > MaxInst

ReturnsNone(c) ==
    /\ pc[c] \in {"waiting", "got"}
    /\ pc'[c] = "idle"
    /\ stats'.total_allocated = stats.total_allocated

\* C11: allocate reports a shutdown of the scheduler differently from the
\* expiry of its wait: None, the Unavailable result of a timeout, is never
\* what a call returns once the scheduler has been shut down.
C11_ShutdownIsNotUnavailable ==
    [][\A c \in Callers : ReturnsNone(c) => running]_vars

\* both callers wait in allocate_instance, the queue holds exactly the id x
\* of a READY instance, and nothing else is going on with the pool
OneIdTwoCallers(x) ==
    /\ ready_queue = <<x>>
    /\ x \in DOMAIN instances
    /\ instances[x].status = READY
    /\ \A c \in Callers : pc[c] = "waiting"
    /\ probes = {}
    /\ sd_pc = "no"

\* C12: with one id in the queue and two concurrent allocate calls, the id
\* goes to one of the two callers, that caller's call ends with the grant
\* of the instance (ALLOCATED), and the other call ends with None.
C12_OneGrantOneUnavailable ==
    [][\A x \in InstanceIds :
          /\ (OneIdTwoCallers(x) /\ ready_queue' = << >>)
                => \E c \in Callers : pc'[c] = "got" /\ held'[c] = x
          /\ \A c \in Callers :
                (/\ pc[c] \in {"got", "checked"} /\ held[c] = x /\ pc'[c] = "idle"
                 /\ x \in DOMAIN instances /\ instances[x].status = READY
                 /\ probes = {} /\ sd_pc = "no")
                => /\ Grants(c)
                   /\ instances'[x].status = ALLOCATED
                   /\ \A o \in Callers \ {c} :
                         (pc[o] = "waiting" /\ ready_queue = << >>) => pc'[o] = "waiting"
      ]_vars

\* ready_count read as the number of READY records
ReadyInstances == CountStatus(instances, READY)

\* C13: from an empty pool with pool_size within max_pool_size and within
\* the creation limit, the first cycle launches exactly pool_size creations;
\* no cycle launches a creation while READY + CREATING + TESTING records
\* number pool_size.
C13_ExactlyTargetThenNone ==
    [][(DOMAIN instances' \ DOMAIN instances # {}) =>
          /\ (/\ next_id = 1
              /\ pool_size <= max_pool_size
              /\ pool_size <= concurrent_creation_limit)
                => Cardinality(DOMAIN instances' \ DOMAIN instances) = pool_size
          /\ ReadyInstances + CountStatus(instances, CREATING)
                + CountStatus(instances, TESTING) # pool_size
      ]_vars

\* C14: _destroy_instance is idempotent.  Every record that leaves the
\* registry is counted once in total_destroyed, however many destroy calls
\* overlap on it, and a call that ends for an id no longer in the registry
\* changes neither the registry nor the counters.
C14_DestroyIdempotent ==
    /\ [](stats.total_destroyed = (next_id - 1) - Cardinality(DOMAIN instances))
    /\ [][/\ stats'.total_destroyed - stats.total_destroyed
                = Cardinality(DOMAIN instances \ DOMAIN instances')
          /\ \A d \in destroy_calls :
                (d \notin destroy_calls' /\ d[1] \notin DOMAIN instances)
                   => UNCHANGED <<instances, stats>>
        ]_vars

\* two destroy calls overlapped on one id: the first to end removed the
\* record and counted it, the second is still waiting in delete_env
C14_Witness ==
    /\ stats.total_destroyed >= 1
    /\ \E d \in destroy_calls : d[1] \notin DOMAIN instances

\* the number of creations the cycle formula gives when ready_count is the
\* number of READY records
FormulaNeeded ==
    LET creating_count == CountStatus(instances, CREATING)
        testing_count == CountStatus(instances, TESTING)
        needed == pool_size - (ReadyInstances + creating_count + testing_count)
        capacity_room == max_pool_size - Cardinality(DOMAIN instances)
        creation_room == concurrent_creation_limit - (creating_count + testing_count)
    IN  Max2(0, Min2(needed, Min2(capacity_room, creation_room)))

\* C17: what a pool manager cycle launches is max(0, min(needed,
\* capacity_room, creation_room)) with ready_count the number of READY
\* instances.
C17_CycleFormula ==
    (running /\ pm_pc = "cycle") => Max2(0, CycleNeeded) = FormulaNeeded

\* C18: a successful allocate changes exactly the record it grants (status
\* ALLOCATED, client_id, allocated_at), adds one to total_allocated, and
\* changes no other record, no other counter and not the queue.
C18_AllocateFrame ==
    [][\A c \in Callers :
          Grants(c) =>
             /\ held[c] \in DOMAIN instances
             /\ instances' = [instances EXCEPT ![held[c]] = Allocated(@, c)]
             /\ stats' = Bump(stats, "total_allocated")
             /\ UNCHANGED <<ready_queue, pending_puts>>
      ]_vars

\* caller c holds a dequeued id whose record is missing or not READY
HoldsDead(c) ==
    /\ pc[c] = "got"
    /\ ~(held[c] \in DOMAIN instances /\ instances[held[c]].status = READY)

\* C19: allocate that dequeued an id whose record is missing or not READY
\* puts the id back (on the queue, or as a put submitted to the scheduler's
\* loop), returns None without taking another id, and changes no record and
\* no counter.
C19_RequeueAndUnavailable ==
    [][\A c \in Callers :
          (HoldsDead(c) /\ pc'[c] # pc[c]) =>
             /\ pc'[c] = "idle"
             /\ held'[c] = 0
             /\ UNCHANGED <<instances, stats>>
             /\ \/ ready_queue' = ready_queue \o <<held[c]>> /\ UNCHANGED pending_puts
                \/ pending_puts' = pending_puts \o <<held[c]>> /\ UNCHANGED ready_queue
      ]_vars

\* an id that was put back sits in the queue although its record is not
\* READY any more, and the caller that put it back has returned
C19_Witness ==
    /\ sd_pc = "no"
    /\ pending_puts = << >>
    /\ \A c \in Callers : pc[c] = "idle"
    /\ \E k \in 1..Len(ready_queue) :
          ~(ready_queue[k] \in DOMAIN instances
            /\ instances[ready_queue[k]].status = READY)

\* the step in which the failed probe of ALLOCATED instance i is handled:
\* the probe ends without stamping last_health_check
EjectsAllocated(i) ==
    /\ i \in probes
    /\ i \notin probes'
    /\ i \in DOMAIN instances
    /\ instances[i].status = ALLOCATED
    /\ i \in DOMAIN instances' =>
          instances'[i].last_health_check = instances[i].last_health_check

\* the effect of the ejection of an ALLOCATED instance on queue and record:
\* the queue stays as it is, the record goes to DESTROYING, and a DESTROYING
\* record of a client only leaves the registry
EjectionDestroysAllocated ==
    /\ \A i \in InstanceIds :
          EjectsAllocated(i) => /\ ready_queue' = ready_queue
                                /\ i \in DOMAIN instances'
                                /\ instances'[i].status = DESTROYING
    /\ \A i \in DOMAIN instances :
          (/\ instances[i].status = DESTROYING
           /\ instances[i].client_id # "None"
           /\ i \in DOMAIN instances')
             => instances'[i].status = DESTROYING

C15_DestroyTerminates ==
    \A d \in InstanceIds \X Destroyers :
        (d \in destroy_calls) ~> (d \notin destroy_calls)

\* C16: POST /allocate answers 200 with the granted record's data exactly
\* when allocate_instance returned a grant (a READY record became ALLOCATED
\* for the client), and 503 otherwise; POST /release answers 200 exactly
\* when release_instance returned true (the record was destroyed), and 400
\* when a field is absent or empty, then without calling the scheduler, or
\* when release_instance returned false.
C16_HandlerStatusCodes ==
    [][LET h == http'
           r == h.response
       IN  /\ h.request = "allocate" =>
                 /\ r.status \in {200, 503}
                 /\ r.status = 200 <=> h.result # NoGrant
                 /\ r.status = 200 <=>
                       \E i \in DOMAIN instances :
                          /\ instances[i].status = READY
                          /\ instances' = [instances EXCEPT ![i] = Allocated(@, ClientIdOrUnknown(h.client_id))]
                          /\ stats' = Bump(stats, "total_allocated")
                          /\ r.data = to_dict(i, instances'[i])
                 /\ r.status = 503 => UNCHANGED <<instances, stats>>
           /\ h.request = "release" =>
                 /\ r.status \in {200, 400}
                 /\ (h.instance_id = 0 \/ h.client_id \in {"missing", ""})
                       => r.status = 400 /\ ~h.called /\ UNCHANGED <<instances, stats>>
                 /\ r.status = 200 <=> (h.called /\ h.success)
                 /\ r.status = 200 <=>
                       /\ h.instance_id \in DOMAIN instances
                       /\ instances[h.instance_id].client_id = h.client_id
                       /\ h.instance_id \notin DOMAIN instances'
                       /\ stats' = Bump(stats, "total_destroyed")
                 /\ r.status = 400 => UNCHANGED <<instances, stats>>
      ]_vars

\* a release request that names an ALLOCATED instance but carries no usable
\* client_id was answered 400 without a call of the scheduler
C16_Witness ==
    /\ http.request = "release"
    /\ http.instance_id \in DOMAIN instances
    /\ instances[http.instance_id].status = ALLOCATED
    /\ http.client_id \in {"missing", ""}
    /\ http.response.status = 400
    /\ ~http.called

\* the step in which the creation of i fails: its _create_instance task is
\* running, no shutdown cancels it, and the record leaves CREATING / TESTING
\* for something else than the next stage
CreationFails(i) ==
    /\ i \in create_tasks
    /\ i \in DOMAIN instances
    /\ instances[i].status \in {CREATING, TESTING}
    /\ sd_pc' = sd_pc
    /\ \/ i \notin DOMAIN instances'
       \/ /\ instances[i].status = CREATING
          /\ instances'[i].status \notin {CREATING, TESTING}
       \/ /\ instances[i].status = TESTING
          /\ instances'[i].status \notin {TESTING, READY}

C22_DestroyClearsBookkeeping ==
    /\ [][\A d \in destroy_calls :
             d \notin destroy_calls' =>
                /\ d[1] \notin DOMAIN instances'
                /\ d[1] \in DOMAIN instances =>
                      stats'.total_destroyed = stats.total_destroyed + 1
         ]_vars
    /\ \A i \in InstanceIds :
          (i \in DOMAIN instances /\ instances[i].status = DESTROYING)
             ~> (i \notin DOMAIN instances)

\* C23: the queue is FIFO in readiness order.  Under QueueSpec the ids
\* became READY in increasing order and none is ejected: when allocate
\* grants B, every id that became READY before B has been granted or is in
\* the hands of an allocate call that dequeued it.
C23_FifoGrants ==
    [][\A c \in Callers :
          Grants(c) =>
             \A A \in 1..(held[c] - 1) :
                (A \in DOMAIN instances /\ instances[A].status = READY)
                   => \E o \in Callers : held[o] = A
      ]_vars

\* C24: the re-check and the ALLOCATED update of an allocate issued from
\* another loop do not interleave with the scheduler's own steps: between
\* the re-check that found the record READY and the update, no step changes
\* that record, and only steps of the scheduler's loop change records.
C24_CheckAndUpdateNotInterleaved ==
    [][\A c \in Callers :
          (pc[c] = "checked" /\ pc'[c] = "checked") =>
             /\ held[c] \in DOMAIN instances'
             /\ instances'[held[c]].status = READY
      ]_vars

\* C25: an exception inside an iteration of a background loop does not end
\* the loop: no loop has ended while the scheduler is running, and a loop
\* that is not inside an iteration (after a normal end, or after an
\* exception and its backoff) begins another one unless the scheduler stops.
C25_LoopsSurviveExceptions ==
    /\ [](running => \A l \in Loops : loop_pc[l] # "ended")
    /\ \A l \in Loops :
          (loop_pc[l] \in {"head", "backoff"}) ~> (loop_pc[l] = "body" \/ ~running)

\* an iteration of the pool manager raised and the loop is in its backoff
\* sleep, while an iteration of the stats reporter raised and the loop is
\* back at its head
C25_Witness ==
    /\ running
    /\ loop_pc["pool_manager"] = "backoff"
    /\ loop_pc["health_checker"] = "body"
    /\ loop_pc["stats_reporter"] = "head"

\* C26: failures are isolated per instance.  A creation that fails leaves
\* the record and the task of every sibling creation as they are, and a
\* sibling waiting for its probe can still become READY; a delete that
\* ends during shutdown, returned or raised, leaves every other record and
\* every other destroy call as they are.
C26_FailuresIsolated ==
    /\ [](\A j \in create_tasks :
             (j \in DOMAIN instances /\ instances[j].status = TESTING)
                => ENABLED TestApiSucceeds(j))
    /\ [][/\ \A i \in InstanceIds : \A j \in create_tasks \ {i} :
                CreationFails(i) =>
                   /\ j \in create_tasks'
                   /\ j \in DOMAIN instances => /\ j \in DOMAIN instances'
                                                /\ instances'[j] = instances[j]
          /\ \A d \in destroy_calls : \A e \in destroy_calls \ {d} :
                (d \notin destroy_calls' /\ sd_pc = "destroying") =>
                   /\ e \in destroy_calls'
                   /\ e[1] # d[1] =>
                         /\ e[1] \in DOMAIN instances <=> e[1] \in DOMAIN instances'
                         /\ e[1] \in DOMAIN instances => instances'[e[1]] = instances[e[1]]
        ]_vars

\* of two creations launched together one failed its probe and is being
\* destroyed, the other became READY and is in the queue
C26_Witness ==
    \E i, j \in DOMAIN instances :
       /\ instances[i].error_message # ""
       /\ instances[i].status = DESTROYING
       /\ instances[j].status = READY
       /\ j \in Range(ready_queue)
       /\ stats.total_failed = 1
       /\ sd_pc = "no"

\* C27: a CREATING record has empty env_id and endpoint; the two fields
\* change only in the step that takes the record from CREATING to TESTING,
\* in which both go from empty to non-empty, and never afterwards; the
\* readiness probe of a creation is in flight only on a TESTING record whose
\* env_id and endpoint are set, and the step that ends it starts from one.
C27_EnvSetOnce ==
    /\ [](\A i \in DOMAIN instances :
             /\ instances[i].status = CREATING =>
                   (instances[i].env_id = "" /\ instances[i].endpoint = "")
             /\ (i \in create_tasks /\ instances[i].status = TESTING) =>
                   (instances[i].env_id # "" /\ instances[i].endpoint # ""))
    /\ [][\A i \in DOMAIN instances \cap DOMAIN instances' :
             /\ (\/ instances'[i].env_id # instances[i].env_id
                 \/ instances'[i].endpoint # instances[i].endpoint
                 \/ (instances[i].status = CREATING /\ instances'[i].status = TESTING)) =>
                   /\ instances[i].status = CREATING
                   /\ instances'[i].status = TESTING
                   /\ instances[i].env_id = "" /\ instances[i].endpoint = ""
                   /\ instances'[i].env_id # "" /\ instances'[i].endpoint # ""
             /\ (instances[i].status # TESTING /\ instances'[i].status = TESTING) =>
                   instances[i].status = CREATING
             /\ (instances[i].status = TESTING /\ instances'[i].status # TESTING) =>
                   instances[i].env_id # "" /\ instances[i].endpoint # ""
        ]_vars

\* a record that went through both steps: its probe succeeded, it was
\* granted to a caller, and it still carries the env_id and endpoint set
\* when it left CREATING
C27_Witness ==
    \E i \in DOMAIN instances :
       /\ instances[i].status = ALLOCATED
       /\ instances[i].env_id = "env"
       /\ instances[i].endpoint = "endpoint"
       /\ \E j \in create_tasks : j \in DOMAIN instances /\ instances[j].status = TESTING

\* a step in which the health probe of record i ends in success: the
\* probe leaves the set in flight and the record gets a fresh stamp
ProbeSucceeds(i) ==
    /\ i \in probes
    /\ i \notin probes'
    /\ i \in DOMAIN instances
    /\ i \in DOMAIN instances'
    /\ instances[i].last_health_check # "recent"
    /\ instances'[i].last_health_check = "recent"

\* C29: every READY record carries a health stamp; the health checker
\* launches probes only for records that are READY with a stamp older than
\* health_check_interval; a probe that succeeds changes the record's
\* last_health_check and nothing else of the registry, and leaves the ready
\* queue and the counters as they are.
C29_HealthProbeFrame ==
    /\ [](\A i \in DOMAIN instances :
             instances[i].status = READY => instances[i].last_health_check # "None")
    /\ [][/\ \A i \in probes' \ probes :
                /\ i \in DOMAIN instances
                /\ instances[i].status = READY
                /\ instances[i].last_health_check = "old"
          /\ \A i \in InstanceIds :
                ProbeSucceeds(i) =>
                   /\ instances' = [instances EXCEPT ![i].last_health_check = "recent"]
                   /\ ready_queue' = ready_queue
                   /\ stats' = stats
        ]_vars

\* the probe of a READY record with an old stamp is in flight and can
\* succeed, while another record is not probed because it is ALLOCATED
C29_Witness ==
    \E i \in probes : \E j \in DOMAIN instances \ probes:
       /\ i \in DOMAIN instances
       /\ instances[i].status = READY
       /\ instances[i].last_health_check = "old"
       /\ instances[j].status = ALLOCATED
       /\ instances[j].last_health_check = "old"
       /\ ENABLED HealthProbeOk(i)

\* other values the four counters could have: all zero, all one higher
AnyStats == {[k \in DOMAIN stats |-> 0], [k \in DOMAIN stats |-> stats[k] + 1]}

\* what an operation adds to each counter
Added(after, before) == [k \in DOMAIN before |-> after[k] - before[k]]

\* with any other values of the counters destroy, shutdown, allocate and
\* release give the same registry, queue, result and counter increments
CountersUnused ==
    \A st \in AnyStats :
            /\ \A i \in InstanceIds :
                 LET b1 == DestroyBegin(instances, stats, i)
                     b2 == DestroyBegin(instances, st, i)
                     f1 == DestroyFinish(instances, stats, i)
                     f2 == DestroyFinish(instances, st, i)
                 IN  /\ b1.instances = b2.instances
                     /\ b1.suspended = b2.suspended
                     /\ Added(b1.stats, stats) = Added(b2.stats, st)
                     /\ f1.instances = f2.instances
                     /\ Added(f1.stats, stats) = Added(f2.stats, st)
            /\ LET b1 == BeginAll(instances, stats, ShutdownTargets(instances))
                   b2 == BeginAll(instances, st, ShutdownTargets(instances))
               IN  /\ b1.instances = b2.instances
                   /\ b1.suspended = b2.suspended
                   /\ Added(b1.stats, stats) = Added(b2.stats, st)
            /\ \A c \in Callers :
                 LET a1 == AllocateOutcome(instances, ready_queue, stats, c)
                     a2 == AllocateOutcome(instances, ready_queue, st, c)
                 IN  /\ a1.result = a2.result
                     /\ a1.instances = a2.instances
                     /\ a1.ready_queue = a2.ready_queue
                     /\ Added(a1.stats, stats) = Added(a2.stats, st)
            /\ \A c \in Callers : \A i \in InstanceIds :
                 LET r1 == ReleaseOutcome(instances, stats, i, c)
                     r2 == ReleaseOutcome(instances, st, i, c)
                 IN  /\ r1.success = r2.success
                     /\ r1.instances = r2.instances
                     /\ Added(r1.stats, stats) = Added(r2.stats, st)

\* C30: no step decreases total_created, total_allocated, total_destroyed or
\* total_failed; and with any other values of the counters the scheduler
\* would create as many instances (the cycle's count takes no counter),
\* grant the same instance, destroy and remove the same records and add the
\* same amounts to the counters.
C30_CountersMonotonicUnused ==
    /\ [][\A k \in DOMAIN stats : stats'[k] >= stats[k]]_vars
    /\ []CountersUnused

\* every counter has been raised: an instance was created, granted and
\* destroyed and a creation failed, with a READY instance in the queue
C30_Witness ==
    /\ stats.total_created >= 1
    /\ stats.total_allocated >= 1
    /\ stats.total_destroyed >= 1
    /\ stats.total_failed >= 1
    /\ \E i \in DOMAIN instances : instances[i].status \in {READY, ALLOCATED, TESTING}

\* the pool is at its target: ready_count, the size of the ready queue
\* (line 254), equals pool_size and no record is CREATING or TESTING
AtTarget ==
    /\ Len(ready_queue) = pool_size
    /\ CountStatus(instances, CREATING) = 0
    /\ CountStatus(instances, TESTING) = 0

\* C28: with target_pool_size <= max_pool_size, every create completing,
\* every probe succeeding and no allocate, release or health failure, the
\* pool eventually reaches ready_count = target_pool_size with nothing
\* CREATING or TESTING, and stays there.
C28_PoolConverges == <>[]AtTarget

\* the pool manager is at the head of a cycle that creates nothing, below
\* its target, with every record READY: one of them is not in the queue
C28_Stuck ==
    /\ pm_pc = "cycle"
    /\ CycleNeeded = 0
    /\ Len(ready_queue) < pool_size
    /\ \A i \in DOMAIN instances : instances[i].status = READY
    /\ Cardinality(DOMAIN instances) = max_pool_size

\* without a pending get() of a timed-out allocate the pool does converge
C28_ConvergesWithoutOrphans == (orphans = 0) => <>[]AtTarget

\* the ids on their way to a grant, with repetitions: in the queue, in a
\* requeue not yet run, in the hands of a caller after its get()
IdsInFlight ==
    ready_queue \o pending_puts
       \o (IF pc["c1"] \in {"got", "checked"} THEN <<held["c1"]>> ELSE << >>)
       \o (IF pc["c2"] \in {"got", "checked"} THEN <<held["c2"]>> ELSE << >>)

\* how often id i occurs in sequence q
Occurrences(q, i) == Cardinality({k \in 1..Len(q) : q[k] = i})

\* C31: no instance is granted twice.  An id is never in flight more than
\* once, so two allocate calls never hold the same id; the call that
\* returns a grant for an id finds its record, if still there, without an
\* owner, and leaves the id out of the queue and out of every caller's
\* hands; from there nothing brings the id back, since only the id of a
\* record that just left TESTING enters the queue.
C31_GrantedAtMostOnce ==
    /\ [](\A i \in InstanceIds : Occurrences(IdsInFlight, i) <= 1)
    /\ [][/\ \A c \in Callers :
                Grants(c) =>
                   /\ held[c] \in DOMAIN instances => instances[held[c]].client_id = "None"
                   /\ \A o \in Callers \ {c} :
                         pc[o] \in {"got", "checked"} => held[o] # held[c]
                   /\ Occurrences(IdsInFlight', held[c]) = 0
          /\ \A i \in InstanceIds :
                (/\ Occurrences(IdsInFlight, i) = 0
                 /\ ~(i \in DOMAIN instances /\ instances[i].status = TESTING))
                   => Occurrences(IdsInFlight', i) = 0
          /\ \A i \in DOMAIN instances \cap DOMAIN instances' :
                /\ (instances[i].status # TESTING /\ instances'[i].status = TESTING)
                      => instances[i].status = CREATING
                /\ instances'[i].status = CREATING => instances[i].status = CREATING
        ]_vars

\* one instance is granted to a client while the cross-loop caller has
\* passed its re-check with another id and a third id is not involved
C31_Witness ==
    \E i, j \in DOMAIN instances :
       /\ i # j
       /\ instances[i].status = ALLOCATED
       /\ instances[i].client_id = "c1"
       /\ pc["c2"] = "checked"
       /\ held["c2"] = j
       /\ instances[j].status = READY

\* C32: every id held in the ready queue is the id of a record that is in
\* the registry with status READY.
C32_QueueHoldsOnlyReady ==
    \A k \in 1..Len(ready_queue) :
       /\ ready_queue[k] \in DOMAIN instances
       /\ instances[ready_queue[k]].status = READY

\* C32 with shutdown left aside: while no shutdown has begun every queued
\* id is the id of a READY record
C32_QueueHoldsOnlyReadyWhileRunning ==
    sd_pc = "no" => C32_QueueHoldsOnlyReady

\* C33: every READY record has its id exactly once in the ready queue, or,
\* while an allocate call is between its get() and its grant, in that
\* caller's hands: a READY instance is never out of reach of allocate.
C33_ReadyIsReachable ==
    \A i \in DOMAIN instances :
       instances[i].status = READY => Occurrences(IdsInFlight, i) = 1

\* a READY record that no allocate call can ever obtain: its id is nowhere
\* in flight, no get() is pending and every caller is idle
C33_LostReady ==
    \E i \in DOMAIN instances :
       /\ instances[i].status = READY
       /\ Occurrences(IdsInFlight, i) = 0
       /\ orphans = 0
       /\ \A c \in Callers : pc[c] = "idle"
       /\ sd_pc = "no"

\* the record of instance i leaves the registry in this step
Removed(i) == i \in DOMAIN instances /\ i \notin DOMAIN instances'

\* C34: every environment the provisioner created gets a delete attempted
\* before shutdown returns.  The record of a created environment leaves
\* the registry only at the end of a _destroy_instance that called
\* delete_env for it (the record was DESTROYING with its env_id), and when
\* shutdown has returned no record is left.
C34_CreatedEnvsAreDeleted ==
    /\ [](sd_pc = "done" => DOMAIN instances = {})
    /\ [][\A i \in provisioner_envs :
             Removed(i) => /\ instances[i].status = DESTROYING
                           /\ instances[i].env_id # ""
        ]_vars

\* the case of C34 that shutdown meets: the record of a created environment
\* that shutdown() removes was DESTROYING with its env_id
C34_ShutdownDeletesCancelledCreations ==
    [][\A i \in provisioner_envs :
          (Removed(i) /\ sd_pc = "cancelled") =>
                /\ instances[i].status = DESTROYING
                /\ instances[i].env_id # ""
      ]_vars

\* sequence q without its element at position k
Without(q, k) == SubSeq(q, 1, k - 1) \o SubSeq(q, k + 1, Len(q))

\* q2 is q1 without its first occurrence of x
MinusFirst(q1, q2, x) ==
    \E k \in 1..Len(q1) :
       /\ q1[k] = x
       /\ \A j \in 1..(k - 1) : q1[j] # x
       /\ q2 = Without(q1, k)

\* the health probe of x ends in this step
ProbeEnds(x) == x \in probes /\ x \notin probes'

\* the health probe of x ends in failure: _handle_unhealthy_instance(x)
\* runs on a record that is in the registry and gets no fresh stamp
HandlesUnhealthy(x) ==
    /\ ProbeEnds(x)
    /\ x \in DOMAIN instances
    /\ x \in DOMAIN instances' => instances'[x].last_health_check # "recent"

\* C35: the ejection of instance X changes the ready queue by X alone.
\* In the step that runs _handle_unhealthy_instance(X) the queue loses the
\* first occurrence of X when it holds X and is left as it is when it does
\* not: every other id stays, once, in its place relative to the others;
\* ids in callers' hands and requeues under way are not touched.  The end
\* of any probe, of a record already removed too, changes the queue by at
\* most one occurrence of X.
C35_EjectionTouchesOnlyX ==
    [][\A x \in InstanceIds :
          /\ HandlesUnhealthy(x) =>
                IF x \in Range(ready_queue)
                THEN MinusFirst(ready_queue, ready_queue', x)
                ELSE ready_queue' = ready_queue
          /\ ProbeEnds(x) =>
                /\ \/ ready_queue' = ready_queue
                   \/ MinusFirst(ready_queue, ready_queue', x)
                /\ UNCHANGED <<pending_puts, held, pc>>
      ]_vars

\* instance X was ejected from a queue that held another id, while an
\* allocate call was waiting: X is being destroyed, the other id is still
\* queued
C35_Witness ==
    \E x \in DOMAIN instances :
       /\ instances[x].status = DESTROYING
       /\ <<x, "health">> \in destroy_calls
       /\ x \notin Range(ready_queue)
       /\ ready_queue # << >>
       /\ \A k \in 1..Len(ready_queue) :
             /\ ready_queue[k] \in DOMAIN instances
             /\ instances[ready_queue[k]].status = READY
       /\ \E c \in Callers : pc[c] = "waiting"

\* C36: ready_count + creating_count + testing_count, with ready_count the
\* size of the ready queue as the pool manager reads it (line 254), is at
\* most target_pool_size in every reachable state.
C36_NeverOverTarget == total_active <= pool_size

\* queue entries that are ids of READY records in the registry
LiveQueued ==
    Cardinality({k \in 1..Len(ready_queue) :
                    /\ ready_queue[k] \in DOMAIN instances
                    /\ instances[ready_queue[k]].status = READY})

\* C36 with the dead entries of the queue left out of ready_count: queued
\* READY instances, CREATING and TESTING records never exceed the target
C36_LiveNeverOverTarget ==
    LiveQueued + CountStatus(instances, CREATING) + CountStatus(instances, TESTING)
       <= pool_size

C37_HandlerReleaseDestroysOnlyGranted ==
    [][\A i \in DOMAIN instances :
          (Removed(i) /\ http'.request = "release") =>
             /\ instances[i].status = ALLOCATED
             /\ instances[i].client_id = http'.client_id
             /\ http'.client_id \in Callers
      ]_vars

\* the number of records _create_instance has inserted so far: ids are
\* handed out in sequence, one per inserted record
Inserted == next_id - 1

\* C38: the records in the registry plus total_destroyed are the records
\* ever inserted; a step raises total_destroyed by the number of records it
\* removes, and the only records that appear are the newly inserted ones.
C38_Accounting ==
    /\ [](Cardinality(DOMAIN instances) + stats.total_destroyed = Inserted)
    /\ [][/\ stats'.total_destroyed - stats.total_destroyed
                = Cardinality(DOMAIN instances \ DOMAIN instances')
          /\ DOMAIN instances' \ DOMAIN instances = next_id .. (next_id' - 1)
        ]_vars

\* every id was inserted, one record was destroyed and counted after a
\* failed creation, another one is in service
C38_Witness ==
    /\ Inserted = MaxInst
    /\ stats.total_destroyed >= 1
    /\ stats.total_failed >= 1
    /\ \E i \in DOMAIN instances : instances[i].status = ALLOCATED

\* request_instance is running
Requesting == client.call = "request" /\ client.at # "returned"

\* C39: request_instance sends at most max_retries allocate requests and
\* terminates.  It returns success, with instance_id and ip_port recorded,
\* only in the step that receives a 200 carrying success and data; a 503
\* makes it wait and, while attempts remain, send again; it returns failure
\* only when max_retries requests were sent.
C39_RequestBoundedAndTerminates ==
    /\ [](client.call = "request" => client.sent <= max_retries)
    /\ [][Requesting =>
             /\ client'.sent \in {client.sent, client.sent + 1}
             /\ (client'.at = "returned" /\ client'.result = "success") =>
                   /\ client'.sent = client.sent + 1
                   /\ client'.response = "granted"
                   /\ client'.instance_id # 0
                   /\ client'.ip_port # "None"
             /\ (client'.sent = client.sent + 1 /\ client'.response = "503") =>
                   client'.at = "sleep_503"
             /\ (client.at = "sleep_503" /\ client.sent < max_retries) =>
                   (client'.at = "request" /\ client'.attempt = client.attempt + 1)
             /\ (client'.at = "returned" /\ client'.result = "failure") =>
                   client'.sent = max_retries
        ]_vars
    /\ Requesting ~> (client.call = "request" /\ client.at = "returned")

\* all attempts were used, the last one answered 503: request_instance has
\* returned failure
C39_Witness ==
    /\ client.call = "request"
    /\ client.at = "returned"
    /\ client.result = "failure"
    /\ client.sent = max_retries
    /\ client.response = "503"
    /\ client.instance_id = 0

\* C40: when release_instance has returned, instance_id and ip_port are
\* cleared, whatever the scheduler answered; with no instance held it
\* returns success and has sent no request, otherwise it has sent one.
C40_ReleaseClearsLocalRecord ==
    [][(client'.call = "release" /\ client.at \in {"idle", "returned"}) =>
          /\ client'.at = "returned"
          /\ client'.instance_id = 0
          /\ client'.ip_port = "None"
          /\ IF client.instance_id = 0
             THEN client'.result = "success" /\ client'.sent = 0
             ELSE /\ client'.sent = 1
                  /\ client'.result = "success" <=> client'.response = "accepted"
      ]_vars

\* the scheduler rejected the release of a held instance: release_instance
\* returned failure and the local record is cleared
C40_Witness ==
    /\ client.call = "release"
    /\ client.at = "returned"
    /\ client.response = "rejected"
    /\ client.result = "failure"
    /\ client.instance_id = 0
    /\ client.ip_port = "None"

====
